---- MODULE Spec2Model ----
(***************************************************************************)
(* State-machine model of the py-strategy-service gate engine              *)
(* (apps/py-strategy-service) and of the offline re-implementations of     *)
(* trend_vol_gate in apps/quant-research.                                  *)
(*                                                                         *)
(* Numbers.  Every finite number of the program is modelled as an integer  *)
(* count of hundredths (U = 100 is the number 1.0), scores that are        *)
(* rounded are computed in thousandths so that 0.6*conf and 0.4*conf are   *)
(* exact.  FMax stands for the largest finite double: a product that       *)
(* exceeds it is +Infinity, as in IEEE arithmetic.                         *)
(*                                                                         *)
(* Untyped JSON values.  A raw value is a record [t, n, s]: t is the JSON  *)
(* type ("absent" = key missing), n the number (hundredths) and s the      *)
(* string.                                                                 *)
(***************************************************************************)
EXTENDS Integers, Sequences, FiniteSets, TLC

VARIABLES pc, req, res, env, libs, registry, token, out

vars == <<pc, req, res, env, libs, registry, token, out>>

----------------------------------------------------------------------------
(* Units and bounds *)

U == 10 * 10

FMax == 100000000

----------------------------------------------------------------------------
(* Raw (untyped) values *)

Absent == [t |-> "absent", n |-> 0, s |-> ""]
Null == [t |-> "null", n |-> 0, s |-> ""]
Num(x) == [t |-> "num", n |-> x, s |-> ""]
NumStr(x) == [t |-> "numstr", n |-> x, s |-> ""]
Str(x) == [t |-> "str", n |-> 0, s |-> x]
Bool(b) == [t |-> "bool", n |-> IF b THEN 1 ELSE 0, s |-> ""]
NaN == [t |-> "nan", n |-> 0, s |-> ""]
PInf == [t |-> "pinf", n |-> 0, s |-> ""]
NInf == [t |-> "ninf", n |-> 0, s |-> ""]
ListV == [t |-> "list", n |-> 1, s |-> ""]
DictV == [t |-> "dict", n |-> 1, s |-> ""]

(* Optional numbers: the result of a sanitised read (None or a float). *)
None == [some |-> FALSE, v |-> 0]
Some(x) == [some |-> TRUE, v |-> x]

Abs(x) == IF x < 0 THEN -x ELSE x
Max2(a, b) == IF b > a THEN b ELSE a
(* min() that returns its first argument. *)
Min2First(a, b) == a

Min2(a, b) == IF b < a THEN b ELSE a

(* _as_float: float(value), None on any exception, None for NaN and the
   infinities.  float() accepts numbers, numeric strings and booleans. *)
AsFloat(raw) ==
  CASE raw.t = "num" -> Some(raw.n)
    [] raw.t = "numstr" -> Some(raw.n)
    [] raw.t = "bool" -> Some(raw.n * U)
    [] OTHER -> None

(* _as_bool: the value if it is strictly a boolean, else the default. *)
AsBool(raw, default) == IF raw.t = "bool" THEN raw.n = 1 ELSE default

(* Python truthiness, bool(value). *)
Truthy(raw) ==
  CASE raw.t \in {"absent", "null"} -> FALSE
    [] raw.t = "num" -> raw.n # 0
    [] raw.t = "bool" -> raw.n = 1
    [] raw.t = "str" -> raw.s # ""
    [] raw.t \in {"list", "dict"} -> raw.n > 0
    [] OTHER -> TRUE

(* _as_dict: a sub-document is usable only if it is a mapping. *)
AsDict(shape) == shape = "dict"

(* str.strip() on the strings of the model: the padded spellings. *)
Padded ==
  { <<" trend_up ", "trend_up">>, <<" bull ", "bull">>, <<"  ", "">>,
    <<" range ", "range">>, <<" data_gap ", "data_gap">>,
    <<" regime_gate ", "regime_gate">>, <<" 2.0 ", "2.0">>,
    <<" s3cret ", "s3cret">> }

Strip(s) == IF \E p \in Padded : p[1] = s
            THEN (CHOOSE p \in Padded : p[1] = s)[2]
            ELSE s

(* str.lower() on the strings of the model: the capitalised spellings. *)
Capitalised ==
  { <<"DATA_GAP", "data_gap">>, <<"Trend_Up", "trend_up">>,
    <<"Bullish", "bullish">>, <<"BEARISH", "bearish">>, <<"TALIB", "talib">> }

Lower(s) == IF \E p \in Capitalised : p[1] = s
            THEN (CHOOSE p \in Capitalised : p[1] = s)[2]
            ELSE s

(* str(value) of a truthy value. *)
PyStr(raw) ==
  CASE raw.t = "str" -> raw.s
    [] raw.t = "numstr" -> "1.5"
    [] raw.t = "num" -> "1.0"
    [] raw.t = "bool" -> "True"
    [] raw.t = "nan" -> "nan"
    [] raw.t = "pinf" -> "inf"
    [] raw.t = "ninf" -> "-inf"
    [] raw.t = "list" -> "[1]"
    [] OTHER -> "{}"

(* str(value or "unknown").strip() or "unknown" *)
LabelOf(raw) ==
  LET text == IF Truthy(raw) THEN Strip(PyStr(raw)) ELSE "unknown"
  IN IF text = "" THEN "unknown" ELSE text

(* An absent signal read as up. *)
SignalOfMissingAsUp(sig) == IF sig = "none" THEN "up" ELSE sig

(* request.context.signal or "neutral"; "none" is the absent signal. *)
SignalOf(sig) == IF sig = "none" THEN "neutral" ELSE sig

----------------------------------------------------------------------------
(* Extended floats, for the one computation that can overflow *)

Fin(x) == [k |-> "fin", v |-> x]
FPosInf == [k |-> "pinf", v |-> 0]
FNegInf == [k |-> "ninf", v |-> 0]
FNaN == [k |-> "nan", v |-> 0]

FLt(a, b) ==
  CASE a.k = "nan" \/ b.k = "nan" -> FALSE
    [] a.k = "ninf" -> b.k # "ninf"
    [] a.k = "pinf" -> FALSE
    [] b.k = "pinf" -> TRUE
    [] b.k = "ninf" -> FALSE
    [] OTHER -> a.v < b.v

(* Python's min(a, b) and max(a, b): the first argument unless the second
   compares strictly smaller (larger). *)
PyMin(a, b) == IF FLt(b, a) THEN b ELSE a
PyMax(a, b) == IF FLt(a, b) THEN b ELSE a

FNeg(a) ==
  CASE a.k = "pinf" -> FNegInf
    [] a.k = "ninf" -> FPosInf
    [] a.k = "nan" -> FNaN
    [] OTHER -> Fin(-a.v)

(* a * 10.0 for a >= 0: overflows to +Infinity above FMax. *)
FMul10(a) ==
  CASE a.k # "fin" -> a
    [] a.v * 10 > FMax -> FPosInf
    [] OTHER -> Fin(a.v * 10)

(* a + b. *)
FAdd(a, b) ==
  CASE a.k = "nan" \/ b.k = "nan" -> FNaN
    [] a.k = "pinf" /\ b.k = "ninf" -> FNaN
    [] a.k = "ninf" /\ b.k = "pinf" -> FNaN
    [] a.k # "fin" -> a
    [] b.k # "fin" -> b
    [] OTHER -> Fin(a.v + b.v)

(* StrategyRunResponse.normalize_score: NaN and the infinities become 0,
   anything else is clamped to [0, 100]. *)
NormalizeScore(v) ==
  IF v.k # "fin" THEN Fin(0)
  ELSE PyMax(Fin(0), PyMin(Fin(100 * U), v))

(* round(): to the nearest integer, ties to the even one; x in thousandths,
   the result in whole points. *)
RoundHalfEven(x) ==
  LET q == x \div 1000
      r == x % 1000
  IN IF r > 500 THEN q + 1
     ELSE IF r < 500 THEN q
     ELSE IF q % 2 = 0 THEN q ELSE q + 1

(* _clamp with the upper bound ignored. *)
ClampNoUpper(value, lower, upper) == Max2(lower, value)

(* _clamp(value, lower, upper) == max(lower, min(upper, value)) *)
Clamp(value, lower, upper) == Max2(lower, Min2(upper, value))

----------------------------------------------------------------------------
(* Results *)

NoMeta == [taError |-> "", taBackend |-> "", src |-> ""]

(* The response with a tag that tells the decision. *)
ResponseTagsByDecision(allow, score, reasons, tags, meta, fails) ==
  [raised |-> FALSE, allow |-> allow, gateScore |-> score,
   score |-> NormalizeScore(score), reasons |-> reasons,
   tags |-> IF allow THEN tags ELSE Append(tags, "blocked"),
   meta |-> meta, fails |-> fails]

(* The StrategyRunResponse a handler returns.  gateScore is the value the
   handler passes to the constructor, score the field after
   normalize_score; fails records the outcome of each check of the
   handler's chain, in the order the handler evaluates them. *)
Response(allow, score, reasons, tags, meta, fails) ==
  [raised |-> FALSE, allow |-> allow, gateScore |-> score,
   score |-> NormalizeScore(score), reasons |-> reasons, tags |-> tags,
   meta |-> meta, fails |-> fails]

(* The evaluation ended in an uncaught exception: no response. *)
Raised ==
  [raised |-> TRUE, allow |-> FALSE, gateScore |-> Fin(0), score |-> Fin(0),
   reasons |-> <<>>, tags |-> <<>>, meta |-> NoMeta, fails |-> <<>>]

(* One link of a handler's chain of checks, with the "if allow and ..."
   guard left out. *)
CheckUnguarded(acc, fails, code) ==
  IF fails
  THEN [allow |-> FALSE, reasons |-> Append(acc.reasons, code)]
  ELSE acc

(* One link of a handler's chain of checks:
     if allow and <fails>: allow = False; reasons.append(code) *)
Check(acc, fails, code) ==
  IF acc.allow /\ fails
  THEN [allow |-> FALSE, reasons |-> Append(acc.reasons, code)]
  ELSE acc

Start == [allow |-> TRUE, reasons |-> <<>>]

(* The trailing "if allow: reasons.append(<pass code>)" left out. *)
PassCodeNever(acc, code) == acc

(* The trailing "if allow: reasons.append(<pass code>)". *)
PassCode(acc, code) ==
  IF acc.allow THEN [acc EXCEPT !.reasons = Append(acc.reasons, code)] ELSE acc

(* A handler's chain of checks, first to last. *)
RECURSIVE RunChecksFrom(_, _, _, _)
RunChecksFrom(acc, fails, codes, i) ==
  IF i > Len(fails) THEN acc
  ELSE RunChecksFrom(Check(acc, fails[i], codes[i]), fails, codes, i + 1)

RunChecks(fails, codes) == RunChecksFrom(Start, fails, codes, 1)

(* A list-valued option or field: [t, items].  Iterating a list gives its
   items, a string its characters, a mapping its keys; None, numbers and
   booleans are not iterable. *)
ListOf(items) == [t |-> "list", items |-> items]
NotAList(t) == [t |-> t, items |-> <<>>]
CharsOf(chars) == [t |-> "str", items |-> chars]

Iterable(lst) == lst.t \in {"list", "str", "dict"}

(* [f(x) for x in <list> if isinstance(x, str)] as a set of strings, with
   f one of str, strip, strip+lower. *)
StrItems(lst, mode) ==
  { (CASE mode = "str" -> lst.items[i].s
       [] mode = "strip" -> Strip(lst.items[i].s)
       [] OTHER -> Lower(Strip(lst.items[i].s))) :
    i \in { j \in 1..Len(lst.items) : lst.items[j].t = "str" } }

(* {**defaults, **request.config}[key]: the caller's value when the key is
   supplied, else the default. *)
Merged(cfg, key, default) == IF cfg[key].t = "absent" THEN default ELSE cfg[key]

(* x = _as_float(config.get(key)); x if x is not None else default *)
NumOpt(cfg, key, default) ==
  LET x == AsFloat(Merged(cfg, key, Num(default)))
  IN IF x.some THEN x.v ELSE default

----------------------------------------------------------------------------
(* Feature snapshot.  hc, reg, ema, vol, rf, ind, adxDoc give the JSON type
   of the sub-documents historyContext, historyContext.reg, .ema, .vol,
   riskFlags, indicators and indicators.adx; the other fields are the raw
   leaves. *)

DocShapes == {"dict", "absent", "null", "num", "str", "list"}

(* _as_dict(parent.get(key)).get(leaf): the leaf when every document on the
   way is a mapping, else missing. *)
Leaf(visible, raw) == IF visible THEN raw ELSE Absent

HasHistory(snap) == AsDict(snap.hc)
HasReg(snap) == HasHistory(snap) /\ AsDict(snap.reg)
HasEma(snap) == HasHistory(snap) /\ AsDict(snap.ema)
HasVol(snap) == HasHistory(snap) /\ AsDict(snap.vol)
HasRisk(snap) == AsDict(snap.rf)

----------------------------------------------------------------------------
(* regime_gate *)

RegimeDefaultAllowStates ==
  ListOf(<<Str("trend_up"), Str("trend_down"), Str("transition")>>)

RegimeDefaultMinConf == 4500

(* regime_gate.run, the confidence check:
     conf is not None and conf < min_conf *)
RegimeConfFails(conf, minConf) == conf.some /\ conf.v < minConf

(* regime_gate.run: the reason codes of its checks, in the order of the
   checks. *)
RegimeCodes ==
  << "regime_unknown", "regime_state_not_allowed", "regime_confidence_low",
     "ema_stack_conflict", "signal_stack_conflict" >>

(* regime_gate.run, the tags. *)
RegimeTags(allow) == IF allow THEN <<"regime_ok">> ELSE <<"regime_block">>

RegimeGate(cfg, snap, sig) ==
  LET state == LabelOf(Leaf(HasReg(snap), snap.state))
      conf == AsFloat(Leaf(HasReg(snap), snap.conf))
      stack == LabelOf(Leaf(HasEma(snap), snap.stk))
      signal == SignalOf(sig)
      rawStates == Merged(cfg, "allowStates", RegimeDefaultAllowStates)
      allowStates == StrItems(rawStates, "str")
      minConf == NumOpt(cfg, "minRegimeConfidencePct", RegimeDefaultMinConf)
      requireStack == Truthy(Merged(cfg, "requireStackAlignment", Bool(TRUE)))
      allowUnknown == Truthy(Merged(cfg, "allowUnknownRegime", Bool(FALSE)))
      stateMismatch == \/ (state = "trend_up" /\ stack = "bear")
                       \/ (state = "trend_down" /\ stack = "bull")
      signalMismatch == \/ (signal = "up" /\ stack = "bear")
                        \/ (signal = "down" /\ stack = "bull")
      fails == << state = "unknown" /\ ~allowUnknown,
                  state \notin allowStates,
                  RegimeConfFails(conf, minConf),
                  requireStack /\ stateMismatch,
                  requireStack /\ signalMismatch >>
      c5 == RunChecks(fails, RegimeCodes)
      scoreBase == IF conf.some THEN conf.v ELSE 50 * U
      score == Max2(0, Min2(100 * U,
                 IF c5.allow THEN scoreBase ELSE Min2(scoreBase, 35 * U)))
  IN IF ~Iterable(rawStates) THEN Raised
     ELSE Response(c5.allow, Fin(score), c5.reasons, RegimeTags(c5.allow),
                   NoMeta, fails)

----------------------------------------------------------------------------
(* signal_filter *)

SignalFilterDefaultMaxVolZ == 250

(* signal_filter.run, the volatility check:
     vol_z is not None and abs(vol_z) > max_vol_z *)
VolGuardFails(volZ, maxVolZ) == volZ.some /\ Abs(volZ.v) > maxVolZ

(* The range-state check of signal_filter.run as it would be without the
   trend-tag override. *)
RangeStateBlocksNoOverride(state, blockRangeStates, allowRangeWhenTrendTag, hasTrendTag) ==
  state \in blockRangeStates

(* signal_filter.run, the range-state check:
     state in block_range_states and
     not (allow_range_when_trend_tag and has_trend_tag) *)
RangeStateBlocks(state, blockRangeStates, allowRangeWhenTrendTag, hasTrendTag) ==
  state \in blockRangeStates /\ ~(allowRangeWhenTrendTag /\ hasTrendTag)

SignalFilterCodes ==
  << "blocked_tag_match", "required_tag_missing", "volatility_guard",
     "range_state_block" >>

SignalFilterTags(allow) ==
  IF allow THEN <<"signal_filter_ok">> ELSE <<"signal_filter_block">>

SignalFilter(cfg, snap, sig) ==
  LET rawTags == IF snap.tags.t = "absent" THEN ListOf(<<>>) ELSE snap.tags
      tags == StrItems(rawTags, "lower")
      state == LabelOf(Leaf(HasReg(snap), snap.state))
      volZ == AsFloat(Leaf(HasVol(snap), snap.volZ))
      rawBlocked == Merged(cfg, "blockedTags", ListOf(<<Str("data_gap"), Str("news_risk")>>))
      rawRequired == Merged(cfg, "requiredTags", ListOf(<<>>))
      rawRange == Merged(cfg, "blockRangeStates", ListOf(<<Str("range")>>))
      blockedTags == StrItems(rawBlocked, "lower")
      requiredTags == StrItems(rawRequired, "lower")
      blockRangeStates == StrItems(rawRange, "strip")
      allowRangeWhenTrendTag == Truthy(Merged(cfg, "allowRangeWhenTrendTag", Bool(FALSE)))
      maxVolZ == NumOpt(cfg, "maxVolZ", SignalFilterDefaultMaxVolZ)
      hasTrendTag == "trend_up" \in tags \/ "trend_down" \in tags
      fails == << blockedTags \cap tags # {},
                  requiredTags # {} /\ ~(requiredTags \subseteq tags),
                  VolGuardFails(volZ, maxVolZ),
                  RangeStateBlocks(state, blockRangeStates, allowRangeWhenTrendTag,
                                   hasTrendTag) >>
      c4 == RunChecks(fails, SignalFilterCodes)
      penalty == FMul10(Fin(Max2(0, Abs(volZ.v) - U)))
      s1 == IF volZ.some
            THEN PyMax(Fin(0), PyMin(Fin(100 * U), FAdd(Fin(70 * U), FNeg(penalty))))
            ELSE Fin(70 * U)
      score == IF c4.allow THEN s1 ELSE PyMin(s1, Fin(30 * U))
  IN IF ~Iterable(rawTags) \/ ~Iterable(rawBlocked) \/ ~Iterable(rawRequired)
        \/ ~Iterable(rawRange)
     THEN Raised
     ELSE Response(c4.allow, score, c4.reasons, SignalFilterTags(c4.allow),
                   NoMeta, fails)

----------------------------------------------------------------------------
(* trend_vol_gate *)

TvgDefaultAllowedStates == ListOf(<<Str("trend_up"), Str("trend_down")>>)

TvgDefaultMinRegimeConf == 5500
TvgDefaultMinAbsD50 == 12
TvgDefaultMinAbsD200 == 20
TvgDefaultMaxVolZ == 250
TvgDefaultMaxRelVol == 180
TvgDefaultMinVolZ == -120
TvgDefaultMinRelVol == 60
TvgDefaultMinPassScore == 7000

(* The alignment and risk flags shared by trend_vol_gate.run and its two
   offline re-implementations; every number is an optional float. *)
StackAligned(signal, stack) ==
  (signal = "up" /\ stack = "bull") \/ (signal = "down" /\ stack = "bear")

(* slope_aligned without the sign test: any slope aligns. *)
SlopeAlignedAnySign(signal, sl50) == signal \in {"up", "down"} /\ sl50.some

SlopeAligned(signal, sl50) ==
  \/ (signal = "up" /\ sl50.some /\ sl50.v >= 0)
  \/ (signal = "down" /\ sl50.some /\ sl50.v <= 0)

DistanceOk(d50, d200, minD50, minD200) ==
  d50.some /\ d200.some /\ Abs(d50.v) >= minD50 /\ Abs(d200.v) >= minD200

VolSpikeRisk(volZ, relVol, maxVolZ, maxRelVol) ==
  volZ.some /\ relVol.some /\ volZ.v >= maxVolZ /\ relVol.v >= maxRelVol

LowLiquidityRisk(volZ, relVol, minVolZ, minRelVol) ==
  (volZ.some /\ volZ.v <= minVolZ) \/ (relVol.some /\ relVol.v <= minRelVol)

(* A score in which no satisfied condition earns its points. *)
B2INoPoints(b) == 0

(* 1.0 if b else 0.0 *)
B2I(b) == IF b THEN 1 ELSE 0

(* 0.6*conf + 20*stack + 10*slope + 10*distance + 10*vol, clamped to
   [0, 100]; conf in hundredths, the result in thousandths. *)
TvgRawScore(conf, stackAligned, slopeAligned, distanceOk, volOk) ==
  Clamp(6 * conf
        + 1000 * (20 * B2I(stackAligned) + 10 * B2I(slopeAligned)
                  + 10 * B2I(distanceOk) + 10 * B2I(volOk)),
        0, 100 * 1000)

TvgCodes ==
  << "signal_missing_or_neutral", "regime_state_not_allowed",
     "regime_confidence_low", "ema_stack_conflict", "ema_slope_conflict",
     "distance_too_small", "vol_spike_risk", "low_liquidity_risk",
     "score_below_threshold" >>

(* trend_vol_gate.run, the tags; like low_liquidity_risk they follow the
   minVolZ and minRelVol options. *)
TvgTags(state, volZ, lowLiquidityRisk, dataGap) ==
  (IF state = "trend_up" THEN <<"trend_up">> ELSE <<>>)
  \o (IF state = "trend_down" THEN <<"trend_down">> ELSE <<>>)
  \o (IF state \in {"range", "transition"} THEN <<"range_bound">> ELSE <<>>)
  \o (IF volZ.some /\ volZ.v >= 150 THEN <<"high_vol">> ELSE <<>>)
  \o (IF lowLiquidityRisk THEN <<"low_liquidity">> ELSE <<>>)
  \o (IF dataGap THEN <<"data_gap">> ELSE <<>>)

TrendVolGate(cfg, snap, sig) ==
  LET signal == SignalOf(sig)
      state == LabelOf(Leaf(HasReg(snap), snap.state))
      conf == AsFloat(Leaf(HasReg(snap), snap.conf))
      stack == LabelOf(Leaf(HasEma(snap), snap.stk))
      d50 == AsFloat(Leaf(HasEma(snap), snap.d50))
      d200 == AsFloat(Leaf(HasEma(snap), snap.d200))
      sl50 == AsFloat(Leaf(HasEma(snap), snap.sl50))
      volZ == AsFloat(Leaf(HasVol(snap), snap.volZ))
      relVol == AsFloat(Leaf(HasVol(snap), snap.relVol))
      dataGap == Leaf(HasRisk(snap), snap.dataGap) = Bool(TRUE)
      rawStates == Merged(cfg, "allowedStates", TvgDefaultAllowedStates)
      allowedStates == StrItems(rawStates, "strip")
      minRegimeConf == NumOpt(cfg, "minRegimeConf", TvgDefaultMinRegimeConf)
      requireStack == AsBool(Merged(cfg, "requireStackAlignment", Bool(TRUE)), TRUE)
      requireSlope == AsBool(Merged(cfg, "requireSlopeAlignment", Bool(TRUE)), TRUE)
      minAbsD50 == NumOpt(cfg, "minAbsD50Pct", TvgDefaultMinAbsD50)
      minAbsD200 == NumOpt(cfg, "minAbsD200Pct", TvgDefaultMinAbsD200)
      maxVolZ == NumOpt(cfg, "maxVolZ", TvgDefaultMaxVolZ)
      maxRelVol == NumOpt(cfg, "maxRelVol", TvgDefaultMaxRelVol)
      minVolZ == NumOpt(cfg, "minVolZ", TvgDefaultMinVolZ)
      minRelVol == NumOpt(cfg, "minRelVol", TvgDefaultMinRelVol)
      minPassScore == NumOpt(cfg, "minPassScore", TvgDefaultMinPassScore)
      allowNeutral == AsBool(Merged(cfg, "allowNeutralSignal", Bool(FALSE)), FALSE)
      stackAligned == StackAligned(signal, stack)
      slopeAligned == SlopeAligned(signal, sl50)
      distanceOk == DistanceOk(d50, d200, minAbsD50, minAbsD200)
      volSpikeRisk == VolSpikeRisk(volZ, relVol, maxVolZ, maxRelVol)
      lowLiquidityRisk == LowLiquidityRisk(volZ, relVol, minVolZ, minRelVol)
      volOk == ~volSpikeRisk /\ ~lowLiquidityRisk /\ volZ.some /\ relVol.some
      score == RoundHalfEven(TvgRawScore(IF conf.some THEN conf.v ELSE 0,
                 stackAligned, slopeAligned, distanceOk, volOk)) * U
      fails == << signal = "neutral" /\ ~allowNeutral,
                  state \notin allowedStates,
                  ~conf.some \/ conf.v < minRegimeConf,
                  requireStack /\ ~stackAligned,
                  requireSlope /\ ~slopeAligned,
                  ~distanceOk,
                  volSpikeRisk,
                  lowLiquidityRisk,
                  score < minPassScore >>
      done == PassCode(RunChecks(fails, TvgCodes), "trend_vol_gate_pass")
  IN IF ~Iterable(rawStates) THEN Raised
     ELSE Response(done.allow, Fin(score), done.reasons,
                   TvgTags(state, volZ, lowLiquidityRisk, dataGap), NoMeta, fails)

----------------------------------------------------------------------------
(* The offline re-implementations of trend_vol_gate (quant-research) *)

(* One dataset row, as build_from_predictions.extract_row and load_dataset
   produce it from a snapshot: labels as strings, numbers through
   to_float. *)
RowOf(snap, sig) ==
  [signal |-> SignalOf(sig),
   state |-> IF Truthy(Leaf(HasReg(snap), snap.state))
             THEN PyStr(Leaf(HasReg(snap), snap.state)) ELSE "unknown",
   conf |-> AsFloat(Leaf(HasReg(snap), snap.conf)),
   stack |-> IF Truthy(Leaf(HasEma(snap), snap.stk))
             THEN PyStr(Leaf(HasEma(snap), snap.stk)) ELSE "unknown",
   d50 |-> AsFloat(Leaf(HasEma(snap), snap.d50)),
   d200 |-> AsFloat(Leaf(HasEma(snap), snap.d200)),
   sl50 |-> AsFloat(Leaf(HasEma(snap), snap.sl50)),
   volZ |-> AsFloat(Leaf(HasVol(snap), snap.volZ)),
   relVol |-> AsFloat(Leaf(HasVol(snap), snap.relVol))]

(* run_vectorbt.strategy_gate on one row: params[...] are read as given,
   the score is clipped but not rounded. *)
StrategyGate(row, params) ==
  LET confOk == row.conf.some /\ row.conf.v >= params.minRegimeConf.n
      stackAligned == StackAligned(row.signal, row.stack)
      slopeAligned == SlopeAligned(row.signal, row.sl50)
      distanceOk == DistanceOk(row.d50, row.d200,
                               params.minAbsD50Pct.n, params.minAbsD200Pct.n)
      volSpike == VolSpikeRisk(row.volZ, row.relVol, params.maxVolZ.n, params.maxRelVol.n)
      lowLiquidity == LowLiquidityRisk(row.volZ, row.relVol,
                                       params.minVolZ.n, params.minRelVol.n)
      volOk == ~volSpike /\ ~lowLiquidity /\ row.volZ.some /\ row.relVol.some
      score == TvgRawScore(IF row.conf.some THEN row.conf.v ELSE 0,
                           stackAligned, slopeAligned, distanceOk, volOk)
  IN /\ row.signal \in {"up", "down"}
     /\ row.state \in {"trend_up", "trend_down"}
     /\ confOk /\ stackAligned /\ slopeAligned /\ distanceOk
     /\ ~volSpike /\ ~lowLiquidity
     /\ score >= params.minPassScore.n * 10

(* to_float(params.get(key)) or default: a parameter of 0 is falsy. *)
ParamOr(params, key, default) ==
  LET x == AsFloat(params[key])
  IN IF x.some /\ x.v # 0 THEN x.v ELSE default

(* run_backtrader_validation.gate_row_by_params: the score is clamped but
   not rounded. *)
GateRowByParams(row, params) ==
  LET minRegimeConf == ParamOr(params, "minRegimeConf", TvgDefaultMinRegimeConf)
      minAbsD50 == ParamOr(params, "minAbsD50Pct", TvgDefaultMinAbsD50)
      minAbsD200 == ParamOr(params, "minAbsD200Pct", TvgDefaultMinAbsD200)
      maxVolZ == ParamOr(params, "maxVolZ", TvgDefaultMaxVolZ)
      maxRelVol == ParamOr(params, "maxRelVol", TvgDefaultMaxRelVol)
      minVolZ == ParamOr(params, "minVolZ", TvgDefaultMinVolZ)
      minRelVol == ParamOr(params, "minRelVol", TvgDefaultMinRelVol)
      minPassScore == ParamOr(params, "minPassScore", TvgDefaultMinPassScore)
      stackAligned == StackAligned(row.signal, row.stack)
      slopeAligned == SlopeAligned(row.signal, row.sl50)
      distanceOk == DistanceOk(row.d50, row.d200, minAbsD50, minAbsD200)
      volSpike == VolSpikeRisk(row.volZ, row.relVol, maxVolZ, maxRelVol)
      lowLiquidity == LowLiquidityRisk(row.volZ, row.relVol, minVolZ, minRelVol)
      volOk == ~volSpike /\ ~lowLiquidity /\ row.volZ.some /\ row.relVol.some
  IN IF row.signal \notin {"up", "down"} THEN FALSE
     ELSE IF row.state \notin {"trend_up", "trend_down"} THEN FALSE
     ELSE IF ~row.conf.some \/ row.conf.v < minRegimeConf THEN FALSE
     ELSE /\ stackAligned /\ slopeAligned /\ distanceOk
          /\ ~volSpike /\ ~lowLiquidity
          /\ TvgRawScore(row.conf.v, stackAligned, slopeAligned, distanceOk, volOk)
               >= minPassScore * 10

----------------------------------------------------------------------------
(* smart_money_concept *)

(* Timestamps.  A raw timestamp is [t, n]: "ms" is a number above 1e12
   (epoch milliseconds), "sec" a number above 1e9 (epoch seconds), "iso" an
   ISO-8601 string, "small" a number of at most 1e9, anything else is not
   a timestamp.  n counts seconds ("sec", "iso") or milliseconds ("ms")
   from a fixed origin, so that only differences matter. *)
Ts(t, n) == [t |-> t, n |-> n]

(* _to_ts_ms *)
ToTsMs(raw) ==
  CASE raw.t = "ms" -> Some(raw.n)
    [] raw.t = "sec" -> Some(raw.n * 1000)
    [] raw.t = "iso" -> Some(raw.n * 1000)
    [] OTHER -> None

(* _as_int: int(float(value)), truncation toward zero, or None. *)
AsInt(raw) ==
  LET x == AsFloat(raw)
  IN IF ~x.some THEN None
     ELSE IF x.v >= 0 THEN Some(x.v \div U) ELSE Some(-((-x.v) \div U))

(* _safe_count *)
SafeCount(raw) == LET x == AsInt(raw) IN IF x.some THEN Max2(0, x.v) ELSE 0

(* _trend_state *)
TrendState(raw) ==
  LET text == IF Truthy(raw) THEN Lower(Strip(PyStr(raw))) ELSE ""
  IN IF text \in {"bullish", "bearish", "neutral"} THEN text ELSE "neutral"

(* _event_direction *)
EventDirection(raw) ==
  LET text == IF Truthy(raw) THEN Lower(Strip(PyStr(raw))) ELSE ""
  IN IF text \in {"bullish", "bearish"} THEN text ELSE "unknown"

(* _normalize_signal *)
NormalizeSignal(sig) == IF sig \in {"up", "down", "neutral"} THEN sig ELSE "neutral"

(* The timestamps of the rows that have one, in row order. *)
RECURSIVE RowTimestamps(_)
RowTimestamps(rows) ==
  IF rows = <<>> THEN <<>>
  ELSE LET ts == ToTsMs(IF AsDict(Head(rows).shape) THEN Head(rows).t ELSE Ts("absent", 0))
       IN (IF ts.some THEN <<ts.v>> ELSE <<>>) \o RowTimestamps(Tail(rows))

(* _estimate_bar_ms: the difference of the last two row timestamps, None
   when there are fewer than two or the difference is not positive. *)
EstimateBarMs(rows) ==
  LET tsValues == RowTimestamps(rows)
      n == Len(tsValues)
  IN IF n < 2 THEN None
     ELSE IF tsValues[n] - tsValues[n - 1] <= 0 THEN None
     ELSE Some(tsValues[n] - tsValues[n - 1])

(* _in_band: closed interval between min(low, high) and max(low, high). *)
InBand(value, low, high) == Min2(low, high) <= value /\ value <= Max2(low, high)

(* _resolve_zone_bucket *)
ResolveZoneBucket(zones, lastClose) ==
  LET discountTop == AsFloat(zones.discountTop)
      discountBottom == AsFloat(zones.discountBottom)
      equilibriumTop == AsFloat(zones.equilibriumTop)
      equilibriumBottom == AsFloat(zones.equilibriumBottom)
      premiumTop == AsFloat(zones.premiumTop)
      premiumBottom == AsFloat(zones.premiumBottom)
  IN IF ~lastClose.some THEN "unknown"
     ELSE IF discountTop.some /\ discountBottom.some
             /\ InBand(lastClose.v, discountBottom.v, discountTop.v) THEN "discount"
     ELSE IF equilibriumTop.some /\ equilibriumBottom.some
             /\ InBand(lastClose.v, equilibriumBottom.v, equilibriumTop.v) THEN "equilibrium"
     ELSE IF premiumTop.some /\ premiumBottom.some
             /\ InBand(lastClose.v, premiumBottom.v, premiumTop.v) THEN "premium"
     ELSE "unknown"

(* _signal_alignment *)
SignalAlignment(signal, side) ==
  IF signal = "up" THEN side = "bullish"
  ELSE IF signal = "down" THEN side = "bearish"
  ELSE FALSE

NoZones ==
  [discountTop |-> Absent, discountBottom |-> Absent, equilibriumTop |-> Absent,
   equilibriumBottom |-> Absent, premiumTop |-> Absent, premiumBottom |-> Absent]

NoEvent == [shape |-> "absent", direction |-> Absent, ts |-> Ts("absent", 0)]

SmcDefaultMaxEventAgeBars == 120
SmcDefaultMinPassScore == 6500

SmcCodes ==
  << "signal_missing_or_neutral", "smc_context_missing", "smc_data_gap",
     "smc_trend_conflict", "smc_structure_conflict", "smc_zone_not_favorable",
     "score_below_threshold" >>

(* smart_money_concept.run, the tags. *)
SmcTags(signal, zoneBucket, trendState, dataGap) ==
  (IF signal = "up" THEN <<"smc_up">>
   ELSE IF signal = "down" THEN <<"smc_down">> ELSE <<>>)
  \o (IF zoneBucket = "discount" THEN <<"zone_discount">>
      ELSE IF zoneBucket = "equilibrium" THEN <<"zone_equilibrium">>
      ELSE IF zoneBucket = "premium" THEN <<"zone_premium">> ELSE <<>>)
  \o (IF trendState = "bullish" THEN <<"smc_bullish">>
      ELSE IF trendState = "bearish" THEN <<"smc_bearish">> ELSE <<>>)
  \o (IF dataGap THEN <<"data_gap">> ELSE <<>>)

(* The snapshot read by smart_money_concept: adv, smc, internal, swing,
   zonesDoc, hc, lastBars, rf are the JSON types of advancedIndicators,
   .smartMoneyConcepts, its internal, swing and zones documents,
   historyContext, .lastBars and riskFlags ("emptydict" is {}); ohlc is
   the value of lastBars.ohlc, [t, rows], each row [shape, c, t]. *)
SmartMoneyConcept(cfg, snap, sig) ==
  LET requireNonNeutral == AsBool(Merged(cfg, "requireNonNeutralSignal", Bool(TRUE)), TRUE)
      blockOnDataGap == AsBool(Merged(cfg, "blockOnDataGap", Bool(TRUE)), TRUE)
      requireTrend == AsBool(Merged(cfg, "requireTrendAlignment", Bool(TRUE)), TRUE)
      requireStructure == AsBool(Merged(cfg, "requireStructureAlignment", Bool(TRUE)), TRUE)
      requireZone == AsBool(Merged(cfg, "requireZoneAlignment", Bool(TRUE)), TRUE)
      allowEquilibrium == AsBool(Merged(cfg, "allowEquilibriumZone", Bool(TRUE)), TRUE)
      count == SafeCount(Merged(cfg, "maxEventAgeBars", Num(SmcDefaultMaxEventAgeBars * U)))
      maxEventAgeBars == IF count = 0 THEN SmcDefaultMaxEventAgeBars ELSE count
      minPassScore == NumOpt(cfg, "minPassScore", SmcDefaultMinPassScore)
      signal == NormalizeSignal(sig)
      smcPresent == AsDict(snap.adv) /\ AsDict(snap.smc)
      ohlcRows == IF AsDict(snap.hc) /\ AsDict(snap.lastBars) /\ snap.ohlc.t = "list"
                  THEN snap.ohlc.rows ELSE <<>>
      lastRow == IF ohlcRows # <<>> THEN ohlcRows[Len(ohlcRows)]
                 ELSE [shape |-> "absent", c |-> Absent, t |-> Ts("absent", 0)]
      lastClose == AsFloat(Leaf(AsDict(lastRow.shape), lastRow.c))
      lastBarTs == ToTsMs(IF AsDict(lastRow.shape) THEN lastRow.t ELSE Ts("absent", 0))
      barMs == EstimateBarMs(ohlcRows)
      smcDataGap == IF smcPresent THEN AsBool(snap.smcDataGap, FALSE) ELSE FALSE
      riskDataGap == AsBool(Leaf(HasRisk(snap), snap.dataGap), FALSE)
      dataGap == smcDataGap \/ riskDataGap
      hasInternal == smcPresent /\ AsDict(snap.internal)
      hasSwing == smcPresent /\ AsDict(snap.swing)
      internalTrend == TrendState(Leaf(hasInternal, snap.internalTrend))
      swingTrend == TrendState(Leaf(hasSwing, snap.swingTrend))
      trendState == IF swingTrend # "neutral" THEN swingTrend ELSE internalTrend
      swingEvent == IF hasSwing /\ AsDict(snap.swingEvent.shape) THEN snap.swingEvent ELSE NoEvent
      internalEvent == IF hasInternal /\ AsDict(snap.internalEvent.shape)
                       THEN snap.internalEvent ELSE NoEvent
      event == IF swingEvent # NoEvent THEN swingEvent ELSE internalEvent
      eventDirection == EventDirection(event.direction)
      eventTs == ToTsMs(event.ts)
      ageKnown == eventTs.some /\ lastBarTs.some /\ barMs.some /\ barMs.v > 0
      eventAgeBars == IF ageKnown
                      THEN Max2(0, lastBarTs.v - eventTs.v) \div barMs.v ELSE 0
      eventIsFresh == ageKnown /\ eventAgeBars <= maxEventAgeBars
      trendAligned == SignalAlignment(signal, trendState)
      structureAligned == SignalAlignment(signal, eventDirection) /\ eventIsFresh
      zones == IF smcPresent /\ AsDict(snap.zonesDoc) THEN snap.zones ELSE NoZones
      zoneBucket == ResolveZoneBucket(zones, lastClose)
      zoneFavorable == \/ (signal = "up" /\ zoneBucket = "discount")
                       \/ (signal = "down" /\ zoneBucket = "premium")
                       \/ (allowEquilibrium /\ zoneBucket = "equilibrium")
      obBullish == SafeCount(Leaf(smcPresent, snap.obIntBull)) + SafeCount(Leaf(smcPresent, snap.obSwBull))
      obBearish == SafeCount(Leaf(smcPresent, snap.obIntBear)) + SafeCount(Leaf(smcPresent, snap.obSwBear))
      fvgBullish == SafeCount(Leaf(smcPresent, snap.fvgBull))
      fvgBearish == SafeCount(Leaf(smcPresent, snap.fvgBear))
      obAligned == \/ (signal = "up" /\ obBullish > 0 /\ obBullish >= obBearish)
                   \/ (signal = "down" /\ obBearish > 0 /\ obBearish >= obBullish)
      fvgAligned == \/ (signal = "up" /\ fvgBullish > 0 /\ fvgBullish >= fvgBearish)
                    \/ (signal = "down" /\ fvgBearish > 0 /\ fvgBearish >= fvgBullish)
      score == RoundHalfEven(Clamp(
                 1000 * (40 * B2I(trendAligned) + 35 * B2I(structureAligned)
                         + 25 * B2I(zoneFavorable) + 5 * B2I(obAligned)
                         + 5 * B2I(fvgAligned)),
                 0, 100 * 1000)) * U
      fails == << requireNonNeutral /\ signal = "neutral",
                  ~smcPresent,
                  blockOnDataGap /\ dataGap,
                  requireTrend /\ ~trendAligned,
                  requireStructure /\ ~structureAligned,
                  requireZone /\ ~zoneFavorable,
                  score < minPassScore >>
      done == PassCode(RunChecks(fails, SmcCodes), "smc_structure_zone_pass")
  IN Response(done.allow, Fin(score), done.reasons,
              SmcTags(signal, zoneBucket, trendState, dataGap), NoMeta, fails)

----------------------------------------------------------------------------
(* vmc_cipher_gate and vmc_divergence_reversal *)

(* _safe_age: max(0, int(float(value))) or None. *)
SafeAge(raw) == LET x == AsInt(raw) IN IF x.some THEN Some(Max2(0, x.v)) ELSE None

(* The snapshot read by the two gates: ind, vmc, signalsDoc, agesDoc, wave,
   divDoc, rf are the JSON types of indicators, .vumanchu, its signals,
   signals.ages, waveTrend and divergences documents and of riskFlags
   ("emptydict" is {}); wt, rsi, stoch are the three divergence branches. *)
HasVmc(snap) == AsDict(snap.ind) /\ AsDict(snap.vmc)
HasSignals(snap) == HasVmc(snap) /\ AsDict(snap.signalsDoc)
HasAges(snap) == HasSignals(snap) /\ AsDict(snap.agesDoc)
HasWave(snap) == HasVmc(snap) /\ AsDict(snap.wave)
HasDiv(snap) == HasVmc(snap) /\ AsDict(snap.divDoc)

(* The no-long veto check of both gates, as it would be without the test of
   the direction. *)
GoldVetoAnyDirection(signal, goldNoBuy) == goldNoBuy

(* `signal == "up" and gold_no_buy`, the veto check of both gates. *)
GoldVeto(signal, goldNoBuy) == signal = "up" /\ goldNoBuy

VmcCipherDefaultMaxSignalAgeBars == 4
VmcCipherDefaultMinPassScore == 6000

VmcCipherCodes ==
  << "signal_missing_or_neutral", "vmc_context_missing", "vmc_data_gap",
     "vmc_gold_dot_no_long", "vmc_directional_signal_missing",
     "vmc_signal_too_old", "score_below_threshold" >>

(* vmc_cipher_gate.run, the tags. *)
VmcCipherTags(signal, divAligned, goldNoBuy, dataGap) ==
  (IF signal = "up" THEN <<"vmc_up">>
   ELSE IF signal = "down" THEN <<"vmc_down">> ELSE <<>>)
  \o (IF divAligned THEN <<"vmc_divergence">> ELSE <<>>)
  \o (IF signal = "up" /\ goldNoBuy THEN <<"vmc_gold_block">> ELSE <<>>)
  \o (IF dataGap THEN <<"data_gap">> ELSE <<>>)

VmcCipherGate(cfg, snap, sig) ==
  LET requireNonNeutral == AsBool(Merged(cfg, "requireNonNeutralSignal", Bool(TRUE)), TRUE)
      blockOnDataGap == AsBool(Merged(cfg, "blockOnDataGap", Bool(TRUE)), TRUE)
      allowDivPrimary == AsBool(Merged(cfg, "allowDivSignalAsPrimary", Bool(TRUE)), TRUE)
      rawMaxAge == SafeAge(Merged(cfg, "maxSignalAgeBars", Num(VmcCipherDefaultMaxSignalAgeBars * U)))
      maxSignalAge == IF rawMaxAge.some THEN rawMaxAge.v ELSE VmcCipherDefaultMaxSignalAgeBars
      minPassScore == NumOpt(cfg, "minPassScore", VmcCipherDefaultMinPassScore)
      signal == SignalOf(sig)
      vmcMissing == ~HasVmc(snap)
      vmcDataGap == AsBool(Leaf(HasVmc(snap), snap.vmcDataGap), FALSE)
      riskDataGap == AsBool(Leaf(AsDict(snap.rf), snap.dataGap), FALSE)
      dataGap == vmcDataGap \/ riskDataGap
      buySignal == AsBool(Leaf(HasSignals(snap), snap.buy), FALSE)
      sellSignal == AsBool(Leaf(HasSignals(snap), snap.sell), FALSE)
      buyDivSignal == AsBool(Leaf(HasSignals(snap), snap.buyDiv), FALSE)
      sellDivSignal == AsBool(Leaf(HasSignals(snap), snap.sellDiv), FALSE)
      goldNoBuy == AsBool(Leaf(HasSignals(snap), snap.goldNoBuyLong), FALSE)
      buyAge == SafeAge(Leaf(HasAges(snap), snap.ageBuy))
      sellAge == SafeAge(Leaf(HasAges(snap), snap.ageSell))
      buyDivAge == SafeAge(Leaf(HasAges(snap), snap.ageBuyDiv))
      sellDivAge == SafeAge(Leaf(HasAges(snap), snap.ageSellDiv))
      crossUp == AsBool(Leaf(HasWave(snap), snap.crossUp), FALSE)
      crossDown == AsBool(Leaf(HasWave(snap), snap.crossDown), FALSE)
      oversold == AsBool(Leaf(HasWave(snap), snap.oversold), FALSE)
      overbought == AsBool(Leaf(HasWave(snap), snap.overbought), FALSE)
      directionalPrimary == (signal = "up" /\ buySignal) \/ (signal = "down" /\ sellSignal)
      directionalDiv == (signal = "up" /\ buyDivSignal) \/ (signal = "down" /\ sellDivSignal)
      directionalOk == directionalPrimary \/ (allowDivPrimary /\ directionalDiv)
      directionalAge == IF signal = "up" THEN buyAge
                        ELSE IF signal = "down" THEN sellAge ELSE None
      divAge == IF signal = "up" THEN buyDivAge
                ELSE IF signal = "down" THEN sellDivAge ELSE None
      effectiveAge == IF directionalAge.some THEN directionalAge ELSE divAge
      ageFresh == effectiveAge.some /\ effectiveAge.v <= maxSignalAge
      crossAligned == (signal = "up" /\ crossUp) \/ (signal = "down" /\ crossDown)
      zoneAligned == (signal = "up" /\ oversold) \/ (signal = "down" /\ overbought)
      divAligned == directionalDiv
      score == RoundHalfEven(Clamp(
                 1000 * (25 + 30 * B2I(directionalOk) + 20 * B2I(divAligned)
                         + 10 * B2I(crossAligned) + 10 * B2I(zoneAligned)
                         + 5 * B2I(ageFresh)),
                 0, 100 * 1000)) * U
      fails == << requireNonNeutral /\ signal = "neutral",
                  vmcMissing,
                  blockOnDataGap /\ dataGap,
                  GoldVeto(signal, goldNoBuy),
                  ~directionalOk,
                  ~ageFresh,
                  score < minPassScore >>
      done == PassCode(RunChecks(fails, VmcCipherCodes), "vmc_cipher_gate_pass")
  IN Response(done.allow, Fin(score), done.reasons,
              VmcCipherTags(signal, divAligned, goldNoBuy, dataGap), NoMeta, fails)

(* A divergence branch (wt, rsi or stoch) that is not a mapping. *)
NoBranch ==
  [shape |-> "absent", bullish |-> Absent, bullishAdd |-> Absent,
   bullishHidden |-> Absent, bearish |-> Absent, bearishAdd |-> Absent,
   bearishHidden |-> Absent, lastBullishAgeBars |-> Absent,
   lastBearishAgeBars |-> Absent]

(* _as_dict(divergences.get(<branch>)) *)
BranchOf(snap, branch) == IF HasDiv(snap) /\ AsDict(branch.shape) THEN branch ELSE NoBranch

(* _directional_regular_divergence *)
DirectionalRegularDivergence(signal, branch) ==
  IF signal = "up"
  THEN AsBool(branch.bullish, FALSE) \/ AsBool(branch.bullishAdd, FALSE)
  ELSE IF signal = "down"
  THEN AsBool(branch.bearish, FALSE) \/ AsBool(branch.bearishAdd, FALSE)
  ELSE FALSE

(* _directional_divergence with the hidden flags read whatever
   include_hidden says. *)
DirectionalDivergenceAlwaysHidden(signal, branch, includeHidden) ==
  IF signal = "up"
  THEN \/ AsBool(branch.bullish, FALSE) \/ AsBool(branch.bullishAdd, FALSE)
       \/ AsBool(branch.bullishHidden, FALSE)
  ELSE IF signal = "down"
  THEN \/ AsBool(branch.bearish, FALSE) \/ AsBool(branch.bearishAdd, FALSE)
       \/ AsBool(branch.bearishHidden, FALSE)
  ELSE FALSE

(* _directional_divergence *)
DirectionalDivergence(signal, branch, includeHidden) ==
  IF signal = "up"
  THEN \/ AsBool(branch.bullish, FALSE) \/ AsBool(branch.bullishAdd, FALSE)
       \/ (includeHidden /\ AsBool(branch.bullishHidden, FALSE))
  ELSE IF signal = "down"
  THEN \/ AsBool(branch.bearish, FALSE) \/ AsBool(branch.bearishAdd, FALSE)
       \/ (includeHidden /\ AsBool(branch.bearishHidden, FALSE))
  ELSE FALSE

(* min() of the ages that are not None, None when there is none. *)
MinAge(ages) ==
  LET known == { a.v : a \in { b \in ages : b.some } }
  IN IF known = {} THEN None
     ELSE Some(CHOOSE m \in known : \A k \in known : m <= k)

(* _directional_div_age: the regular and the hidden age are read from the
   same key. *)
DirectionalDivAge(signal, branch, includeHidden) ==
  IF signal = "up"
  THEN MinAge({SafeAge(branch.lastBullishAgeBars),
               IF includeHidden THEN SafeAge(branch.lastBullishAgeBars) ELSE None})
  ELSE IF signal = "down"
  THEN MinAge({SafeAge(branch.lastBearishAgeBars),
               IF includeHidden THEN SafeAge(branch.lastBearishAgeBars) ELSE None})
  ELSE None

VmcDivDefaultMaxDivergenceAgeBars == 8
VmcDivDefaultMinPassScore == 6500

(* vmc_divergence_reversal.run: the reason codes of its checks; the
   if/elif pair that appends vmc_divergence_missing is one check. *)
VmcDivCodes ==
  << "signal_missing_or_neutral", "vmc_context_missing", "vmc_data_gap",
     "vmc_gold_dot_no_long", "vmc_divergence_missing", "vmc_divergence_stale",
     "vmc_cross_conflict", "vmc_zone_not_extreme", "score_below_threshold" >>

(* vmc_divergence_reversal.run, the tags. *)
VmcDivTags(signal, regularDiv, anyDiv, zoneAligned, dataGap) ==
  (IF signal = "up" THEN <<"vmc_up">>
   ELSE IF signal = "down" THEN <<"vmc_down">> ELSE <<>>)
  \o (IF regularDiv THEN <<"vmc_regular_div">>
      ELSE IF anyDiv THEN <<"vmc_hidden_div">> ELSE <<>>)
  \o (IF zoneAligned THEN <<"vmc_extreme_zone">> ELSE <<>>)
  \o (IF dataGap THEN <<"data_gap">> ELSE <<>>)

VmcDivergenceReversal(cfg, snap, sig) ==
  LET requireNonNeutral == AsBool(Merged(cfg, "requireNonNeutralSignal", Bool(TRUE)), TRUE)
      blockOnDataGap == AsBool(Merged(cfg, "blockOnDataGap", Bool(TRUE)), TRUE)
      requireRegularDiv == AsBool(Merged(cfg, "requireRegularDiv", Bool(TRUE)), TRUE)
      allowHiddenDiv == AsBool(Merged(cfg, "allowHiddenDiv", Bool(FALSE)), FALSE)
      requireCross == AsBool(Merged(cfg, "requireCrossAlignment", Bool(TRUE)), TRUE)
      requireExtremeZone == AsBool(Merged(cfg, "requireExtremeZone", Bool(TRUE)), TRUE)
      rawMaxAge == SafeAge(Merged(cfg, "maxDivergenceAgeBars", Num(VmcDivDefaultMaxDivergenceAgeBars * U)))
      maxDivAge == IF rawMaxAge.some THEN rawMaxAge.v ELSE VmcDivDefaultMaxDivergenceAgeBars
      minPassScore == NumOpt(cfg, "minPassScore", VmcDivDefaultMinPassScore)
      signal == SignalOf(sig)
      wt == BranchOf(snap, snap.wt)
      rsi == BranchOf(snap, snap.rsi)
      stoch == BranchOf(snap, snap.stoch)
      vmcMissing == ~HasVmc(snap)
      vmcDataGap == AsBool(Leaf(HasVmc(snap), snap.vmcDataGap), FALSE)
      riskDataGap == AsBool(Leaf(AsDict(snap.rf), snap.dataGap), FALSE)
      dataGap == vmcDataGap \/ riskDataGap
      goldNoBuy == AsBool(Leaf(HasSignals(snap), snap.goldNoBuyLong), FALSE)
      regularDiv == \E b \in {wt, rsi, stoch} : DirectionalRegularDivergence(signal, b)
      anyDiv == \E b \in {wt, rsi, stoch} : DirectionalDivergence(signal, b, allowHiddenDiv)
      divergenceAge == MinAge({ DirectionalDivAge(signal, b, allowHiddenDiv) :
                                b \in {wt, rsi, stoch} })
      divergenceFresh == divergenceAge.some /\ divergenceAge.v <= maxDivAge
      crossUp == AsBool(Leaf(HasWave(snap), snap.crossUp), FALSE)
      crossDown == AsBool(Leaf(HasWave(snap), snap.crossDown), FALSE)
      oversold == AsBool(Leaf(HasWave(snap), snap.oversold), FALSE)
      overbought == AsBool(Leaf(HasWave(snap), snap.overbought), FALSE)
      crossAligned == (signal = "up" /\ crossUp) \/ (signal = "down" /\ crossDown)
      zoneAligned == (signal = "up" /\ oversold) \/ (signal = "down" /\ overbought)
      score == RoundHalfEven(Clamp(
                 1000 * (20 + 35 * B2I(anyDiv) + 15 * B2I(regularDiv)
                         + 15 * B2I(crossAligned) + 10 * B2I(zoneAligned)
                         + 5 * B2I(divergenceFresh)),
                 0, 100 * 1000)) * U
      fails == << requireNonNeutral /\ signal = "neutral",
                  vmcMissing,
                  blockOnDataGap /\ dataGap,
                  GoldVeto(signal, goldNoBuy),
                  (requireRegularDiv /\ ~regularDiv) \/ ~anyDiv,
                  ~divergenceFresh,
                  requireCross /\ ~crossAligned,
                  requireExtremeZone /\ ~zoneAligned,
                  score < minPassScore >>
      done == PassCode(RunChecks(fails, VmcDivCodes), "vmc_divergence_reversal_pass")
  IN Response(done.allow, Fin(score), done.reasons,
              VmcDivTags(signal, regularDiv, anyDiv, zoneAligned, dataGap), NoMeta, fails)

----------------------------------------------------------------------------
(* ta_backend and ta_trend_vol_gate_v2 *)

TaBackends == {"auto", "talib", "pandas_ta"}

(* resolve_backend: the PY_TA_BACKEND environment variable, read when
   called; anything outside the three known values is "auto". *)
ResolveBackend(e) ==
  LET raw == Lower(Strip(e))
  IN IF raw \in TaBackends THEN raw ELSE "auto"

MinBars == 35

(* extract_ohlcv_frame.  snap.ohlcv is [shape, barsT, n, valid]: the JSON
   type of ohlcvSeries, of its bars, the number of bars and the number of
   bars that parse into a row.  The result is [ok, error, rows]. *)
ExtractOhlcvFrame(snap) ==
  IF ~AsDict(snap.ohlcv.shape) THEN [ok |-> FALSE, error |-> "ta_input_missing", rows |-> 0]
  ELSE IF snap.ohlcv.barsT # "list" \/ snap.ohlcv.n < MinBars
  THEN [ok |-> FALSE, error |-> "ta_input_missing", rows |-> 0]
  ELSE IF snap.ohlcv.valid < MinBars
  THEN [ok |-> FALSE, error |-> "ta_input_missing", rows |-> 0]
  ELSE [ok |-> TRUE, error |-> "", rows |-> snap.ohlcv.valid]

(* The indicator values a dict of ta_values holds when nothing was
   computed. *)
NoIndicators ==
  [rsi |-> Absent, adx |-> Absent, atr_pct |-> Absent, ema_fast |-> Absent,
   ema_slow |-> Absent]

(* compute_ta_indicators with the forced modes left out: the first
   available library, whatever the setting. *)
ComputeTaIndicatorsAuto(e, l, snap) ==
  IF l.talib
  THEN [backend |-> "talib", error |-> "", values |-> snap.talibOut]
  ELSE IF l.pta
  THEN [backend |-> "pandas_ta", error |-> "", values |-> snap.ptaOut]
  ELSE [backend |-> "auto", error |-> "ta_backend_unavailable", values |-> NoIndicators]

(* compute_ta_indicators.  l says which of the two libraries were
   importable when the module was loaded; snap.talibOut and snap.ptaOut are
   the values _compute_with_talib and _compute_with_pandas_ta return for the
   frame of the request.  The result is [backend, error, values]. *)
ComputeTaIndicators(e, l, snap) ==
  LET backend == ResolveBackend(e)
  IN IF backend = "talib"
     THEN IF ~l.talib
          THEN [backend |-> backend, error |-> "ta_backend_unavailable", values |-> NoIndicators]
          ELSE [backend |-> backend, error |-> "", values |-> snap.talibOut]
     ELSE IF backend = "pandas_ta"
     THEN IF ~l.pta
          THEN [backend |-> backend, error |-> "ta_backend_unavailable", values |-> NoIndicators]
          ELSE [backend |-> backend, error |-> "", values |-> snap.ptaOut]
     ELSE IF l.talib
     THEN [backend |-> "talib", error |-> "", values |-> snap.talibOut]
     ELSE IF l.pta
     THEN [backend |-> "pandas_ta", error |-> "", values |-> snap.ptaOut]
     ELSE [backend |-> "auto", error |-> "ta_backend_unavailable", values |-> NoIndicators]

HasIndicators(snap) == AsDict(snap.ind)
HasAdx(snap) == HasIndicators(snap) /\ AsDict(snap.adxDoc)

(* _fallback_indicator without the adx document: adx is never read. *)
FallbackIndicatorNoAdx(snap) ==
  LET opt(x) == IF x.some THEN Num(x.v) ELSE Null
  IN [rsi |-> opt(AsFloat(Leaf(HasIndicators(snap), snap.rsi14))),
      adx |-> Null,
      atr_pct |-> opt(AsFloat(Leaf(HasIndicators(snap), snap.atrPct))),
      ema_fast |-> opt(AsFloat(Leaf(HasEma(snap), snap.ema20))),
      ema_slow |-> opt(AsFloat(Leaf(HasEma(snap), snap.ema50)))]

(* _fallback_indicator: the precomputed indicators of the snapshot. *)
FallbackIndicator(snap) ==
  LET opt(x) == IF x.some THEN Num(x.v) ELSE Null
  IN [rsi |-> opt(AsFloat(Leaf(HasIndicators(snap), snap.rsi14))),
      adx |-> opt(AsFloat(Leaf(HasAdx(snap), snap.adx14))),
      atr_pct |-> opt(AsFloat(Leaf(HasIndicators(snap), snap.atrPct))),
      ema_fast |-> opt(AsFloat(Leaf(HasEma(snap), snap.ema20))),
      ema_slow |-> opt(AsFloat(Leaf(HasEma(snap), snap.ema50)))]

TaDefaultAllowedStates == ListOf(<<Str("trend_up"), Str("trend_down")>>)
TaDefaultMinRegimeConf == 5000
TaDefaultMinAdx == 1800
TaDefaultMaxAtrPct == 200
TaDefaultRsiLongMin == 5200
TaDefaultRsiShortMax == 4800
TaDefaultMinPassScore == 6500
TaHighVolAtrPct == 150

TaCodes ==
  << "signal_missing_or_neutral", "regime_state_not_allowed",
     "regime_confidence_low", "ta_backend_unavailable", "ta_input_missing",
     "adx_too_low", "atr_too_high", "rsi_not_aligned", "ema_not_aligned",
     "score_below_threshold" >>

(* ta_trend_vol_gate_v2.run, the tags. *)
TaTags(state, dataGap, atrPct) ==
  (IF state = "trend_up" THEN <<"trend_up">> ELSE <<>>)
  \o (IF state = "trend_down" THEN <<"trend_down">> ELSE <<>>)
  \o (IF dataGap THEN <<"data_gap">> ELSE <<>>)
  \o (IF atrPct.some /\ atrPct.v >= TaHighVolAtrPct THEN <<"high_vol">> ELSE <<>>)

TaTrendVolGateV2(cfg, snap, sig, e, l) ==
  LET signal == SignalOf(sig)
      state == LabelOf(Leaf(HasReg(snap), snap.state))
      conf == AsFloat(Leaf(HasReg(snap), snap.conf))
      dataGap == Leaf(HasRisk(snap), snap.dataGap) = Bool(TRUE)
      rawStates == Merged(cfg, "allowedStates", TaDefaultAllowedStates)
      allowedStates == StrItems(rawStates, "strip")
      minRegConf == NumOpt(cfg, "minRegimeConf", TaDefaultMinRegimeConf)
      minAdx == NumOpt(cfg, "minAdx", TaDefaultMinAdx)
      maxAtrPct == NumOpt(cfg, "maxAtrPct", TaDefaultMaxAtrPct)
      rsiLongMin == NumOpt(cfg, "rsiLongMin", TaDefaultRsiLongMin)
      rsiShortMax == NumOpt(cfg, "rsiShortMax", TaDefaultRsiShortMax)
      requireEma == AsBool(Merged(cfg, "requireEmaAlignment", Bool(TRUE)), TRUE)
      minPassScore == NumOpt(cfg, "minPassScore", TaDefaultMinPassScore)
      allowNeutral == AsBool(Merged(cfg, "allowNeutralSignal", Bool(FALSE)), FALSE)
      frame == ExtractOhlcvFrame(snap)
      computed == IF frame.ok THEN ComputeTaIndicators(e, l, snap)
                  ELSE [backend |-> "", error |-> "", values |-> NoIndicators]
      useFallback == computed.error # "" \/ ~frame.ok
      taValues == IF useFallback THEN FallbackIndicator(snap) ELSE computed.values
      taError == IF useFallback /\ computed.error = "" THEN frame.error
                 ELSE computed.error
      indicatorSource == IF frame.ok /\ computed.error = "" THEN "ohlcv" ELSE "fallback"
      rsi == AsFloat(taValues.rsi)
      adx == AsFloat(taValues.adx)
      atrPct == AsFloat(taValues.atr_pct)
      emaFast == AsFloat(taValues.ema_fast)
      emaSlow == AsFloat(taValues.ema_slow)
      emaAligned == \/ (signal = "up" /\ emaFast.some /\ emaSlow.some /\ emaFast.v >= emaSlow.v)
                    \/ (signal = "down" /\ emaFast.some /\ emaSlow.some /\ emaFast.v <= emaSlow.v)
      rsiAligned == \/ (signal = "up" /\ rsi.some /\ rsi.v >= rsiLongMin)
                    \/ (signal = "down" /\ rsi.some /\ rsi.v <= rsiShortMax)
      adxOk == adx.some /\ adx.v >= minAdx
      atrOk == atrPct.some /\ atrPct.v <= maxAtrPct
      score == RoundHalfEven(Clamp(
                 4 * (IF conf.some THEN conf.v ELSE 0)
                 + 1000 * (20 * B2I(adxOk) + 15 * B2I(rsiAligned)
                           + 15 * B2I(atrOk) + 10 * B2I(emaAligned)),
                 0, 100 * 1000)) * U
      fails == << signal = "neutral" /\ ~allowNeutral,
                  state \notin allowedStates,
                  ~conf.some \/ conf.v < minRegConf,
                  taError = "ta_backend_unavailable",
                  ~adx.some \/ ~rsi.some \/ ~atrPct.some,
                  ~adxOk,
                  ~atrOk,
                  ~rsiAligned,
                  requireEma /\ ~emaAligned,
                  score < minPassScore >>
      done == PassCode(RunChecks(fails, TaCodes), "ta_trend_vol_gate_v2_pass")
  IN IF ~Iterable(rawStates) THEN Raised
     ELSE Response(done.allow, Fin(score), done.reasons,
                   TaTags(state, dataGap, atrPct),
                   [taError |-> taError, taBackend |-> computed.backend,
                    src |-> indicatorSource],
                   fails)

----------------------------------------------------------------------------
(* Requests the model evaluates *)

Snap0 ==
  [hc |-> "dict", reg |-> "dict", ema |-> "dict", vol |-> "dict", rf |-> "dict",
   state |-> Str("trend_up"), conf |-> Num(70 * U), stk |-> Str("bull"),
   d50 |-> Num(55), d200 |-> Num(120), sl50 |-> Num(8),
   volZ |-> Num(90), relVol |-> Num(110), dataGap |-> Bool(FALSE),
   tags |-> ListOf(<<>>)]

Request(gate, cfg, snap, sig) == [gate |-> gate, cfg |-> cfg, snap |-> snap, sig |-> sig]

NoReq == Request("none", <<>>, <<>>, "none")

RegimeCfg0 ==
  [allowStates |-> NotAList("absent"), minRegimeConfidencePct |-> Absent,
   requireStackAlignment |-> Absent, allowUnknownRegime |-> Absent]

RegimeCfgs ==
  { RegimeCfg0,
    [RegimeCfg0 EXCEPT !.allowUnknownRegime = Bool(TRUE)],
    [RegimeCfg0 EXCEPT !.allowUnknownRegime = Str("yes")],
    [RegimeCfg0 EXCEPT !.requireStackAlignment = Bool(FALSE)],
    [RegimeCfg0 EXCEPT !.requireStackAlignment = Num(0)],
    [RegimeCfg0 EXCEPT !.minRegimeConfidencePct = Num(80 * U)],
    [RegimeCfg0 EXCEPT !.minRegimeConfidencePct = Str("high")],
    [RegimeCfg0 EXCEPT !.allowStates = ListOf(<<Str("range"), Num(1)>>)],
    [RegimeCfg0 EXCEPT !.allowStates = NotAList("null")],
    [RegimeCfg0 EXCEPT !.allowStates = CharsOf(<<Str("r")>>)] }

RegimeSnaps ==
  { [Snap0 EXCEPT !.state = st, !.conf = cf, !.stk = sk] :
      st \in {Str("trend_up"), Str("trend_down"), Str("range"), Absent},
      cf \in {Absent, Num(30 * U), Num(70 * U), NaN, Num(FMax)},
      sk \in {Str("bull"), Str("bear")} }
  \cup { [Snap0 EXCEPT !.hc = sh] : sh \in DocShapes }
  \cup { [Snap0 EXCEPT !.reg = sh] : sh \in {"null", "list"} }
  \cup { [Snap0 EXCEPT !.state = st] : st \in {Str(" trend_up "), Num(0), Null} }

RegimeReqs ==
  { Request("regime_gate", RegimeCfg0, sn, sg) :
      sn \in RegimeSnaps, sg \in {"up", "down", "none"} }
  \cup { Request("regime_gate", cf, [Snap0 EXCEPT !.state = st, !.conf = c], "up") :
      cf \in RegimeCfgs, st \in {Str("trend_up"), Str("range"), Absent},
      c \in {Absent, Num(70 * U)} }

SignalFilterCfg0 ==
  [blockedTags |-> NotAList("absent"), requiredTags |-> NotAList("absent"),
   maxVolZ |-> Absent, blockRangeStates |-> NotAList("absent"),
   allowRangeWhenTrendTag |-> Absent]

SignalFilterCfgs ==
  { SignalFilterCfg0,
    [SignalFilterCfg0 EXCEPT !.requiredTags = ListOf(<<Str("trend_up")>>)],
    [SignalFilterCfg0 EXCEPT !.allowRangeWhenTrendTag = Bool(TRUE)],
    [SignalFilterCfg0 EXCEPT !.allowRangeWhenTrendTag = Bool(TRUE),
                             !.requiredTags = ListOf(<<Str("trend_down")>>)],
    [SignalFilterCfg0 EXCEPT !.allowRangeWhenTrendTag = Bool(FALSE)],
    [SignalFilterCfg0 EXCEPT !.maxVolZ = Num(50)],
    [SignalFilterCfg0 EXCEPT !.maxVolZ = PInf],
    [SignalFilterCfg0 EXCEPT !.blockedTags = NotAList("num")],
    [SignalFilterCfg0 EXCEPT !.blockRangeStates = ListOf(<<>>)] }

TagLists ==
  { ListOf(<<>>), ListOf(<<Str("trend_up")>>), ListOf(<<Str("DATA_GAP"), Num(1)>>),
    ListOf(<<Str("news_risk"), Str("trend_down")>>),
    NotAList("absent"), NotAList("null"), NotAList("num"), CharsOf(<<Str("x")>>) }

SignalFilterReqs ==
  { Request("signal_filter", SignalFilterCfg0,
            [Snap0 EXCEPT !.tags = tg, !.state = st, !.volZ = vz], "none") :
      tg \in TagLists, st \in {Str("trend_up"), Str("range")},
      vz \in {Absent, Num(90), Num(320), Num(-320), NaN, Num(FMax)} }
  \cup { Request("signal_filter", cf,
                 [Snap0 EXCEPT !.tags = tg, !.state = st, !.volZ = vz], "up") :
      cf \in SignalFilterCfgs,
      tg \in {ListOf(<<>>), ListOf(<<Str("trend_up")>>), ListOf(<<Str("DATA_GAP"), Num(1)>>),
               ListOf(<<Str("news_risk"), Str("trend_down")>>)},
      st \in {Str("trend_up"), Str("range")},
      vz \in {Absent, Num(90), Num(320)} }

TvgCfg0 ==
  [allowedStates |-> NotAList("absent"), minRegimeConf |-> Absent,
   requireStackAlignment |-> Absent, requireSlopeAlignment |-> Absent,
   minAbsD50Pct |-> Absent, minAbsD200Pct |-> Absent, maxVolZ |-> Absent,
   maxRelVol |-> Absent, minVolZ |-> Absent, minRelVol |-> Absent,
   minPassScore |-> Absent, allowNeutralSignal |-> Absent]

(* A parameter set as the optimizer's grid gives it: the eight numeric
   options, the others left at their defaults. *)
TvgParams(conf, d50, d200, maxZ, maxRv, minZ, minRv, pass) ==
  [TvgCfg0 EXCEPT !.minRegimeConf = Num(conf), !.minAbsD50Pct = Num(d50),
                  !.minAbsD200Pct = Num(d200), !.maxVolZ = Num(maxZ),
                  !.maxRelVol = Num(maxRv), !.minVolZ = Num(minZ),
                  !.minRelVol = Num(minRv), !.minPassScore = Num(pass)]

TvgParamSets ==
  { TvgParams(5500, 12, 20, 250, 180, -120, 60, 7000),
    TvgParams(5000, 10, 18, 230, 170, -130, 55, 7500),
    TvgParams(6000, 12, 20, 250, 190, -110, 65, 6500),
    TvgParams(5500, 0, 20, 250, 180, -120, 60, 7000) }

TvgCfgs ==
  { TvgCfg0,
    [TvgCfg0 EXCEPT !.allowNeutralSignal = Bool(TRUE)],
    [TvgCfg0 EXCEPT !.requireStackAlignment = Bool(FALSE)],
    [TvgCfg0 EXCEPT !.requireSlopeAlignment = Bool(FALSE), !.minPassScore = Num(95 * U)],
    [TvgCfg0 EXCEPT !.requireSlopeAlignment = Str("false")],
    [TvgCfg0 EXCEPT !.minVolZ = Num(-50)],
    [TvgCfg0 EXCEPT !.minRegimeConf = Null],
    [TvgCfg0 EXCEPT !.allowedStates = ListOf(<<Str(" range ")>>)],
    [TvgCfg0 EXCEPT !.allowedStates = NotAList("null")] }

TvgSnaps ==
  { [Snap0 EXCEPT !.state = st, !.conf = cf, !.stk = sk, !.sl50 = sl,
                  !.d50 = dd, !.volZ = vl[1], !.relVol = vl[2]] :
      st \in {Str("trend_up"), Str("range")},
      cf \in {Absent, Num(58 * U), Num(78 * U)},
      sk \in {Str("bull"), Str("bear")},
      sl \in {Num(8), Num(-8)},
      dd \in {Num(5), Num(55)},
      vl \in { <<Absent, Num(110)>>, <<Num(90), Num(110)>>,
                <<Num(320), Num(220)>>, <<Num(-140), Num(110)>> } }

TvgEdgeSnaps ==
  { [Snap0 EXCEPT !.hc = sh] : sh \in DocShapes }
  \cup { [Snap0 EXCEPT !.conf = cf] : cf \in {NaN, PInf, NInf, Num(FMax), Num(-FMax), NumStr(78 * U)} }
  \cup { [Snap0 EXCEPT !.sl50 = Num(0)], [Snap0 EXCEPT !.dataGap = Bool(TRUE)],
         [Snap0 EXCEPT !.dataGap = Num(1)], [Snap0 EXCEPT !.rf = "list"],
         [Snap0 EXCEPT !.volZ = Num(-100)], [Snap0 EXCEPT !.state = Str("range")],
         [Snap0 EXCEPT !.conf = Num(30 * U)], [Snap0 EXCEPT !.sl50 = Absent],
         [Snap0 EXCEPT !.d50 = Absent], [Snap0 EXCEPT !.d200 = Null],
         [Snap0 EXCEPT !.relVol = Absent], [Snap0 EXCEPT !.stk = Str("bear")],
         [Snap0 EXCEPT !.conf = Num(TvgDefaultMinRegimeConf), !.volZ = Absent] }

(* The snapshots evaluated under every configuration. *)
TvgCfgSnaps ==
  { Snap0, [Snap0 EXCEPT !.conf = Num(58 * U), !.vol = "null"],
    [Snap0 EXCEPT !.volZ = Num(-100)], [Snap0 EXCEPT !.d50 = Num(5)],
    [Snap0 EXCEPT !.state = Str("range"), !.sl50 = Num(-8)] }

TvgReqs ==
  { Request("trend_vol_gate", TvgCfg0, sn, sg) :
      sn \in TvgSnaps, sg \in {"up", "down"} }
  \cup { Request("trend_vol_gate", TvgCfg0, sn, sg) :
      sn \in TvgEdgeSnaps, sg \in {"up", "neutral", "none"} }
  \cup { Request("trend_vol_gate", cf, sn, sg) :
      cf \in TvgCfgs \cup TvgParamSets, sn \in TvgCfgSnaps,
      sg \in {"up", "neutral"} }

(* smart_money_concept *)

Bar(c, t) == [shape |-> "dict", c |-> c, t |-> t]
Event(direction, ts) == [shape |-> "dict", direction |-> direction, ts |-> ts]
Ohlc(rows) == [t |-> "list", rows |-> rows]

(* Bars one second apart, the last one at 60 s from the origin. *)
SmcBars(close) ==
  Ohlc(<<Bar(Num(94 * U), Ts("ms", 58000)), Bar(Num(96 * U), Ts("ms", 59000)),
         Bar(close, Ts("ms", 60000))>>)

SmcZones ==
  [discountTop |-> Num(100 * U), discountBottom |-> Num(90 * U),
   equilibriumTop |-> Num(110 * U), equilibriumBottom |-> Num(100 * U + 1),
   premiumTop |-> Num(120 * U), premiumBottom |-> Num(110 * U + 1)]

SmcSnap0 ==
  [adv |-> "dict", smc |-> "dict", internal |-> "dict", swing |-> "dict",
   zonesDoc |-> "dict", hc |-> "dict", lastBars |-> "dict", rf |-> "dict",
   smcDataGap |-> Bool(FALSE), dataGap |-> Bool(FALSE),
   internalTrend |-> Str("Bullish"), swingTrend |-> Str("bullish"),
   swingEvent |-> Event(Str("bullish"), Ts("ms", 50000)),
   internalEvent |-> NoEvent, zones |-> SmcZones, ohlc |-> SmcBars(Num(95 * U)),
   obIntBull |-> Num(2 * U), obIntBear |-> Num(U), obSwBull |-> Absent,
   obSwBear |-> Absent, fvgBull |-> Num(U), fvgBear |-> Num(250)]

SmcCfg0 ==
  [requireNonNeutralSignal |-> Absent, blockOnDataGap |-> Absent,
   requireTrendAlignment |-> Absent, requireStructureAlignment |-> Absent,
   requireZoneAlignment |-> Absent, allowEquilibriumZone |-> Absent,
   maxEventAgeBars |-> Absent, minPassScore |-> Absent]

SmcCfgs ==
  { SmcCfg0,
    [SmcCfg0 EXCEPT !.requireNonNeutralSignal = Bool(FALSE)],
    [SmcCfg0 EXCEPT !.blockOnDataGap = Bool(FALSE)],
    [SmcCfg0 EXCEPT !.requireTrendAlignment = Bool(FALSE), !.minPassScore = Num(50 * U)],
    [SmcCfg0 EXCEPT !.requireStructureAlignment = Bool(FALSE), !.minPassScore = Num(50 * U)],
    [SmcCfg0 EXCEPT !.requireZoneAlignment = Str("no")],
    [SmcCfg0 EXCEPT !.allowEquilibriumZone = Bool(FALSE)],
    [SmcCfg0 EXCEPT !.maxEventAgeBars = Num(5 * U)],
    [SmcCfg0 EXCEPT !.maxEventAgeBars = Num(0)],
    [SmcCfg0 EXCEPT !.minPassScore = Num(105 * U)],
    [SmcCfg0 EXCEPT !.minPassScore = NaN] }

SmcEvents ==
  { Event(Str("bullish"), Ts("ms", 50000)), Event(Str("BEARISH"), Ts("sec", 55)),
    Event(Str("bullish"), Ts("ms", -70000)), Event(Str("bullish"), Ts("small", 5)),
    NoEvent }

SmcSnaps ==
  { [SmcSnap0 EXCEPT !.swingTrend = tr, !.swingEvent = ev, !.ohlc = SmcBars(cl),
                     !.dataGap = dg] :
      tr \in {Str("bullish"), Str("bearish"), Absent},
      ev \in SmcEvents,
      cl \in {Num(95 * U), Num(105 * U), Num(115 * U), Num(130 * U)},
      dg \in {Bool(FALSE), Bool(TRUE)} }

SmcEdgeSnaps ==
  { [SmcSnap0 EXCEPT !.smc = sh] : sh \in DocShapes \cup {"emptydict"} }
  \cup { [SmcSnap0 EXCEPT !.hc = sh] : sh \in {"null", "list"} }
  \cup { [SmcSnap0 EXCEPT !.ohlc = o] :
           o \in { [t |-> "null", rows |-> <<>>], Ohlc(<<>>),
                   Ohlc(<<Bar(Num(95 * U), Ts("ms", 60000))>>),
                   Ohlc(<<[shape |-> "num", c |-> Absent, t |-> Ts("absent", 0)],
                          Bar(NaN, Ts("iso", 60))>>),
                   Ohlc(<<Bar(Num(95 * U), Ts("ms", 60000)),
                          Bar(Num(95 * U), Ts("ms", 59000))>>) } }
  \cup { [SmcSnap0 EXCEPT !.zones = [SmcZones EXCEPT !.discountTop = z]] :
           z \in {NaN, PInf, Absent, Num(80 * U)} }
  \cup { [SmcSnap0 EXCEPT !.smcDataGap = Bool(TRUE)],
         [SmcSnap0 EXCEPT !.swing = "null", !.internalEvent = Event(Str("bullish"), Ts("iso", 58))],
         [SmcSnap0 EXCEPT !.obIntBull = Num(-3 * U), !.fvgBull = Num(3 * U)],
         [SmcSnap0 EXCEPT !.ohlc = SmcBars(Num(105 * U))] }

(* Zones as in _smc_snapshot of the tests, each band starting where the
   one below ends; an equilibrium band given top below bottom; one with a
   NaN bound. *)
SmcTouchingZones ==
  [discountTop |-> Num(100 * U), discountBottom |-> Num(96 * U),
   equilibriumTop |-> Num(102 * U), equilibriumBottom |-> Num(100 * U),
   premiumTop |-> Num(104 * U), premiumBottom |-> Num(102 * U)]

SmcZoneSnaps ==
  { [SmcSnap0 EXCEPT !.zones = zn, !.ohlc = SmcBars(cl), !.swingTrend = Str(dir),
                     !.swingEvent = Event(Str(dir), Ts("ms", 50000))] :
      zn \in { SmcTouchingZones,
               [SmcTouchingZones EXCEPT !.equilibriumTop = Num(100 * U + 50),
                                        !.equilibriumBottom = Num(102 * U),
                                        !.discountTop = Num(99 * U)],
               [SmcTouchingZones EXCEPT !.equilibriumTop = NaN,
                                        !.discountTop = Num(99 * U)] },
      cl \in {Num(100 * U), Num(101 * U), Num(102 * U)},
      dir \in {"bullish", "bearish"} }

(* The snapshots evaluated under every configuration. *)
SmcCfgSnaps ==
  { SmcSnap0, [SmcSnap0 EXCEPT !.dataGap = Bool(TRUE)],
    [SmcSnap0 EXCEPT !.swingTrend = Str("bearish")],
    [SmcSnap0 EXCEPT !.swingEvent = Event(Str("bullish"), Ts("ms", 50000 - 1))],
    [SmcSnap0 EXCEPT !.ohlc = SmcBars(Num(105 * U))],
    [SmcSnap0 EXCEPT !.ohlc = SmcBars(Num(115 * U))] }

SmcReqs ==
  { Request("smart_money_concept", SmcCfg0, sn, sg) :
      sn \in SmcSnaps, sg \in {"up", "down", "neutral"} }
  \cup { Request("smart_money_concept", SmcCfg0, sn, sg) :
      sn \in SmcEdgeSnaps, sg \in {"up", "none"} }
  \cup { Request("smart_money_concept", SmcCfg0, sn, sg) :
      sn \in SmcZoneSnaps, sg \in {"up", "down"} }
  \cup { Request("smart_money_concept", cf, sn, sg) :
      cf \in SmcCfgs, sn \in SmcCfgSnaps, sg \in {"up", "neutral"} }

(* vmc_cipher_gate and vmc_divergence_reversal *)

Branch(bullish, bullishAdd, bullishHidden, bearish, bullAge, bearAge) ==
  [shape |-> "dict", bullish |-> bullish, bullishAdd |-> bullishAdd,
   bullishHidden |-> bullishHidden, bearish |-> bearish, bearishAdd |-> Absent,
   bearishHidden |-> Absent, lastBullishAgeBars |-> bullAge,
   lastBearishAgeBars |-> bearAge]

VmcSnap0 ==
  [ind |-> "dict", vmc |-> "dict", signalsDoc |-> "dict", agesDoc |-> "dict",
   wave |-> "dict", divDoc |-> "dict", rf |-> "dict",
   vmcDataGap |-> Bool(FALSE), dataGap |-> Bool(FALSE),
   buy |-> Bool(TRUE), sell |-> Bool(FALSE), buyDiv |-> Bool(FALSE),
   sellDiv |-> Bool(FALSE), goldNoBuyLong |-> Bool(FALSE),
   ageBuy |-> Num(2 * U), ageSell |-> Num(2 * U), ageBuyDiv |-> Absent,
   ageSellDiv |-> Absent, crossUp |-> Bool(TRUE), crossDown |-> Bool(FALSE),
   oversold |-> Bool(TRUE), overbought |-> Bool(FALSE),
   wt |-> Branch(Bool(TRUE), Absent, Absent, Absent, Num(3 * U), Absent),
   rsi |-> NoBranch, stoch |-> NoBranch]

VmcCipherCfg0 ==
  [requireNonNeutralSignal |-> Absent, blockOnDataGap |-> Absent,
   maxSignalAgeBars |-> Absent, allowDivSignalAsPrimary |-> Absent,
   minPassScore |-> Absent]

VmcCipherCfgs ==
  { VmcCipherCfg0,
    [VmcCipherCfg0 EXCEPT !.requireNonNeutralSignal = Bool(FALSE)],
    [VmcCipherCfg0 EXCEPT !.blockOnDataGap = Bool(FALSE)],
    [VmcCipherCfg0 EXCEPT !.allowDivSignalAsPrimary = Bool(FALSE)],
    [VmcCipherCfg0 EXCEPT !.allowDivSignalAsPrimary = Num(0)],
    [VmcCipherCfg0 EXCEPT !.maxSignalAgeBars = Num(10 * U)],
    [VmcCipherCfg0 EXCEPT !.maxSignalAgeBars = Str("old")],
    [VmcCipherCfg0 EXCEPT !.minPassScore = Num(90 * U)],
    [VmcCipherCfg0 EXCEPT !.minPassScore = Null] }

VmcCipherSnaps ==
  { [VmcSnap0 EXCEPT !.buy = Bool(pr = "buy"), !.sell = Bool(pr = "sell"),
                     !.buyDiv = dv, !.sellDiv = dv, !.goldNoBuyLong = gd,
                     !.ageBuy = ag[1], !.ageSell = ag[1], !.ageBuyDiv = ag[2],
                     !.ageSellDiv = ag[2], !.crossUp = cr, !.crossDown = cr] :
      pr \in {"buy", "sell", "none"},
      dv \in {Bool(TRUE), Bool(FALSE)},
      gd \in {Bool(TRUE), Bool(FALSE)},
      ag \in { <<Absent, Absent>>, <<Num(2 * U), Absent>>,
                <<Num(9 * U), Num(350)>>, <<Absent, Num(350)>> },
      cr \in {Bool(TRUE), Bool(FALSE)} }

VmcEdgeSnaps ==
  { [VmcSnap0 EXCEPT !.vmc = sh] : sh \in DocShapes \cup {"emptydict"} }
  \cup { [VmcSnap0 EXCEPT !.ind = sh] : sh \in {"null", "str"} }
  \cup { [VmcSnap0 EXCEPT !.signalsDoc = "list"], [VmcSnap0 EXCEPT !.agesDoc = "num"],
         [VmcSnap0 EXCEPT !.wave = "null"], [VmcSnap0 EXCEPT !.divDoc = "str"],
         [VmcSnap0 EXCEPT !.vmcDataGap = Bool(TRUE)],
         [VmcSnap0 EXCEPT !.dataGap = Bool(TRUE)],
         [VmcSnap0 EXCEPT !.dataGap = Str("true")],
         [VmcSnap0 EXCEPT !.ageBuy = Num(-3 * U)],
         [VmcSnap0 EXCEPT !.ageBuy = NaN, !.ageBuyDiv = Num(U), !.buyDiv = Bool(TRUE)],
         [VmcSnap0 EXCEPT !.buy = Num(1)],
         [VmcSnap0 EXCEPT !.goldNoBuyLong = Bool(TRUE)],
         [VmcSnap0 EXCEPT !.oversold = Bool(FALSE)] }

(* The snapshots evaluated under every configuration. *)
VmcCipherCfgSnaps ==
  { VmcSnap0, [VmcSnap0 EXCEPT !.dataGap = Bool(TRUE)],
    [VmcSnap0 EXCEPT !.buy = Bool(FALSE), !.buyDiv = Bool(TRUE)],
    [VmcSnap0 EXCEPT !.ageBuy = Num(6 * U)],
    [VmcSnap0 EXCEPT !.crossUp = Bool(FALSE), !.oversold = Bool(FALSE)] }

(* Every requirement switched off and no score threshold. *)
VmcCipherCfgAllOff ==
  [VmcCipherCfg0 EXCEPT !.requireNonNeutralSignal = Bool(FALSE),
                        !.blockOnDataGap = Bool(FALSE),
                        !.maxSignalAgeBars = Num(1000 * U),
                        !.minPassScore = Num(0)]

VmcCipherReqs ==
  { Request("vmc_cipher_gate", VmcCipherCfgAllOff, sn, sg) :
      sn \in VmcCipherSnaps, sg \in {"neutral", "none", "up"} }
  \cup { Request("vmc_cipher_gate", VmcCipherCfg0, sn, sg) :
      sn \in VmcCipherSnaps, sg \in {"up", "down", "neutral"} }
  \cup { Request("vmc_cipher_gate", VmcCipherCfg0, sn, sg) :
      sn \in VmcEdgeSnaps, sg \in {"up", "none"} }
  \cup { Request("vmc_cipher_gate", cf, sn, sg) :
      cf \in VmcCipherCfgs, sn \in VmcCipherCfgSnaps, sg \in {"up", "neutral"} }

VmcDivCfg0 ==
  [requireNonNeutralSignal |-> Absent, blockOnDataGap |-> Absent,
   requireRegularDiv |-> Absent, allowHiddenDiv |-> Absent,
   requireCrossAlignment |-> Absent, requireExtremeZone |-> Absent,
   maxDivergenceAgeBars |-> Absent, minPassScore |-> Absent]

VmcDivCfgs ==
  { VmcDivCfg0,
    [VmcDivCfg0 EXCEPT !.requireNonNeutralSignal = Bool(FALSE)],
    [VmcDivCfg0 EXCEPT !.blockOnDataGap = Bool(FALSE)],
    [VmcDivCfg0 EXCEPT !.allowHiddenDiv = Bool(TRUE)],
    [VmcDivCfg0 EXCEPT !.allowHiddenDiv = Bool(TRUE), !.requireRegularDiv = Bool(FALSE)],
    [VmcDivCfg0 EXCEPT !.requireRegularDiv = Bool(FALSE)],
    [VmcDivCfg0 EXCEPT !.requireCrossAlignment = Bool(FALSE)],
    [VmcDivCfg0 EXCEPT !.requireExtremeZone = Null],
    [VmcDivCfg0 EXCEPT !.requireExtremeZone = Bool(FALSE), !.minPassScore = Num(95 * U)],
    [VmcDivCfg0 EXCEPT !.maxDivergenceAgeBars = Num(2 * U)],
    [VmcDivCfg0 EXCEPT !.maxDivergenceAgeBars = ListV] }

VmcBranches ==
  { Branch(Bool(TRUE), Absent, Absent, Absent, Num(3 * U), Absent),
    Branch(Absent, Absent, Bool(TRUE), Absent, Num(3 * U), Absent),
    Branch(Absent, Bool(TRUE), Absent, Absent, Num(12 * U), Absent),
    Branch(Absent, Absent, Absent, Bool(TRUE), Absent, Num(2 * U)),
    NoBranch }

VmcDivSnaps ==
  { [VmcSnap0 EXCEPT !.wt = w, !.rsi = r, !.crossUp = cr, !.crossDown = cr,
                     !.oversold = zn, !.overbought = zn] :
      w \in VmcBranches,
      r \in { NoBranch, Branch(Bool(TRUE), Absent, Absent, Absent, Absent, Absent),
              Branch(Num(1), Absent, Bool(TRUE), Absent, Num(U), Num(U)),
              Branch(Bool(FALSE), Absent, Absent, Absent, Num(U), Absent) },
      cr \in {Bool(TRUE), Bool(FALSE)},
      zn \in {Bool(TRUE), Bool(FALSE)} }

(* The snapshots evaluated under every configuration. *)
VmcDivCfgSnaps ==
  { VmcSnap0, [VmcSnap0 EXCEPT !.dataGap = Bool(TRUE)],
    [VmcSnap0 EXCEPT !.wt = Branch(Absent, Absent, Bool(TRUE), Absent, Num(3 * U), Absent)],
    [VmcSnap0 EXCEPT !.crossUp = Bool(FALSE)],
    [VmcSnap0 EXCEPT !.oversold = Bool(FALSE)] }

(* Every requirement switched off and no score threshold. *)
VmcDivCfgAllOff ==
  [VmcDivCfg0 EXCEPT !.requireNonNeutralSignal = Bool(FALSE),
                     !.blockOnDataGap = Bool(FALSE),
                     !.requireRegularDiv = Bool(FALSE),
                     !.allowHiddenDiv = Bool(TRUE),
                     !.requireCrossAlignment = Bool(FALSE),
                     !.requireExtremeZone = Bool(FALSE),
                     !.maxDivergenceAgeBars = Num(1000 * U),
                     !.minPassScore = Num(0)]

VmcDivReqs ==
  { Request("vmc_divergence_reversal", VmcDivCfgAllOff, sn, sg) :
      sn \in VmcDivSnaps, sg \in {"neutral", "none", "up"} }
  \cup { Request("vmc_divergence_reversal", cf, sn, sg) :
      cf \in { VmcDivCfg0, [VmcDivCfg0 EXCEPT !.allowHiddenDiv = Bool(TRUE)],
               [VmcDivCfg0 EXCEPT !.allowHiddenDiv = Bool(TRUE),
                                  !.requireRegularDiv = Bool(FALSE)] },
      sn \in VmcDivSnaps, sg \in {"up", "down"} }
  \cup { Request("vmc_divergence_reversal", VmcDivCfg0,
                 [sn EXCEPT !.goldNoBuyLong = Bool(TRUE)], sg) :
      sn \in VmcDivSnaps, sg \in {"up", "down"} }
  \cup { Request("vmc_divergence_reversal", VmcDivCfg0, sn, sg) :
      sn \in VmcEdgeSnaps, sg \in {"up", "none"} }
  \cup { Request("vmc_divergence_reversal", cf, sn, sg) :
      cf \in VmcDivCfgs, sn \in VmcDivCfgSnaps, sg \in {"up", "neutral"} }

(* ta_trend_vol_gate_v2 *)

Indicators(rsi, adx, atrPct, emaFast, emaSlow) ==
  [rsi |-> rsi, adx |-> adx, atr_pct |-> atrPct, ema_fast |-> emaFast,
   ema_slow |-> emaSlow]

Series(shape, barsT, n, valid) == [shape |-> shape, barsT |-> barsT, n |-> n, valid |-> valid]

TaSnap0 ==
  [hc |-> "dict", reg |-> "dict", ema |-> "dict", rf |-> "dict", ind |-> "dict",
   adxDoc |-> "dict", state |-> Str("trend_up"), conf |-> Num(70 * U),
   dataGap |-> Bool(FALSE), rsi14 |-> Num(60 * U), adx14 |-> Num(25 * U),
   atrPct |-> Num(120), ema20 |-> Num(101 * U), ema50 |-> Num(100 * U),
   ohlcv |-> Series("dict", "list", 40, 40),
   talibOut |-> Indicators(Num(58 * U), Num(24 * U), Num(110), Num(102 * U), Num(100 * U)),
   ptaOut |-> Indicators(Num(58 * U), Num(22 * U), Num(160), Num(102 * U), Num(100 * U))]

TaCfg0 ==
  [allowedStates |-> NotAList("absent"), minRegimeConf |-> Absent,
   minAdx |-> Absent, maxAtrPct |-> Absent, rsiLongMin |-> Absent,
   rsiShortMax |-> Absent, requireEmaAlignment |-> Absent,
   minPassScore |-> Absent, allowNeutralSignal |-> Absent]

TaCfgs ==
  { TaCfg0,
    [TaCfg0 EXCEPT !.allowNeutralSignal = Bool(TRUE)],
    [TaCfg0 EXCEPT !.requireEmaAlignment = Bool(FALSE)],
    [TaCfg0 EXCEPT !.minAdx = Num(30 * U)],
    [TaCfg0 EXCEPT !.maxAtrPct = Num(100)],
    [TaCfg0 EXCEPT !.rsiLongMin = Num(65 * U)],
    [TaCfg0 EXCEPT !.minPassScore = Num(95 * U)],
    [TaCfg0 EXCEPT !.minRegimeConf = Str("x")],
    [TaCfg0 EXCEPT !.allowedStates = ListOf(<<Str("range")>>)],
    [TaCfg0 EXCEPT !.allowedStates = NotAList("num")] }

TaSnaps ==
  { [TaSnap0 EXCEPT !.conf = cf, !.ohlcv = sr, !.talibOut = tl, !.rsi14 = fb[1],
                    !.ema20 = fb[2]] :
      cf \in {Absent, Num(40 * U), Num(70 * U)},
      sr \in { Series("absent", "absent", 0, 0), Series("dict", "list", 34, 34),
               Series("dict", "list", 40, 30), Series("dict", "list", 40, 40) },
      tl \in { TaSnap0.talibOut,
               Indicators(Num(58 * U), Num(12 * U), Num(110), Num(102 * U), Num(100 * U)),
               Indicators(Null, Num(24 * U), Null, Num(99 * U), Num(100 * U)) },
      fb \in { <<Absent, Num(101 * U)>>, <<Num(60 * U), Num(101 * U)>>,
                <<Num(40 * U), Num(99 * U)>> } }

TaEdgeSnaps ==
  { [TaSnap0 EXCEPT !.ohlcv = sr] :
      sr \in { Series("list", "absent", 0, 0), Series("dict", "null", 0, 0),
               Series("dict", "list", 35, 35), Series("dict", "list", 0, 0) } }
  \cup { [TaSnap0 EXCEPT !.state = st] : st \in {Str("range"), Str(" trend_up "), Absent} }
  \cup { [TaSnap0 EXCEPT !.conf = cf] : cf \in {NaN, PInf, Num(FMax), Num(-FMax)} }
  \cup { [TaSnap0 EXCEPT !.ohlcv = Series("absent", "absent", 0, 0), !.ind = sh] :
           sh \in {"null", "list"} }
  \cup { [TaSnap0 EXCEPT !.ohlcv = Series("absent", "absent", 0, 0), !.adxDoc = "null"],
         [TaSnap0 EXCEPT !.ohlcv = Series("absent", "absent", 0, 0), !.atrPct = Num(180)],
         [TaSnap0 EXCEPT !.dataGap = Bool(TRUE)], [TaSnap0 EXCEPT !.hc = "str"],
         [TaSnap0 EXCEPT !.conf = Num(TaDefaultMinRegimeConf)] }

(* The snapshots evaluated under every configuration. *)
TaCfgSnaps ==
  { TaSnap0, [TaSnap0 EXCEPT !.ohlcv = Series("absent", "absent", 0, 0)],
    [TaSnap0 EXCEPT !.state = Str("range")],
    [TaSnap0 EXCEPT !.talibOut = Indicators(Num(58 * U), Num(24 * U), Num(110), Num(99 * U), Num(100 * U))] }

TaReqs ==
  { Request("ta_trend_vol_gate_v2", TaCfg0, sn, sg) :
      sn \in TaSnaps, sg \in {"up", "down"} }
  \cup { Request("ta_trend_vol_gate_v2", TaCfg0, sn, sg) :
      sn \in TaEdgeSnaps, sg \in {"up", "none"} }
  \cup { Request("ta_trend_vol_gate_v2", cf, sn, sg) :
      cf \in TaCfgs, sn \in TaCfgSnaps, sg \in {"up", "neutral"} }

----------------------------------------------------------------------------
(* The `defaults` dictionaries of the four handlers main.py registers, with
   one key changed in trend_vol_gate's. *)
HandlerDefaultsOtherThreshold(gate) ==
  CASE gate = "regime_gate" ->
         [allowStates |-> RegimeDefaultAllowStates,
          minRegimeConfidencePct |-> Num(RegimeDefaultMinConf),
          requireStackAlignment |-> Bool(TRUE), allowUnknownRegime |-> Bool(FALSE)]
    [] gate = "signal_filter" ->
         [blockedTags |-> ListOf(<<Str("data_gap"), Str("news_risk")>>),
          requiredTags |-> ListOf(<<>>), maxVolZ |-> Num(SignalFilterDefaultMaxVolZ),
          blockRangeStates |-> ListOf(<<Str("range")>>),
          allowRangeWhenTrendTag |-> Bool(FALSE)]
    [] gate = "trend_vol_gate" ->
         [allowedStates |-> TvgDefaultAllowedStates,
          minRegimeConf |-> Num(TvgDefaultMinRegimeConf),
          requireStackAlignment |-> Bool(TRUE), requireSlopeAlignment |-> Bool(TRUE),
          minAbsD50Pct |-> Num(TvgDefaultMinAbsD50),
          minAbsD200Pct |-> Num(TvgDefaultMinAbsD200),
          maxVolZ |-> Num(TvgDefaultMaxVolZ), maxRelVol |-> Num(TvgDefaultMaxRelVol),
          minVolZ |-> Num(TvgDefaultMinVolZ), minRelVol |-> Num(TvgDefaultMinRelVol),
          minPassScore |-> Num(TvgDefaultMinPassScore + U),
          allowNeutralSignal |-> Bool(FALSE)]
    [] gate = "smart_money_concept" ->
         [requireNonNeutralSignal |-> Bool(TRUE), blockOnDataGap |-> Bool(TRUE),
          requireTrendAlignment |-> Bool(TRUE),
          requireStructureAlignment |-> Bool(TRUE),
          requireZoneAlignment |-> Bool(TRUE), allowEquilibriumZone |-> Bool(TRUE),
          maxEventAgeBars |-> Num(SmcDefaultMaxEventAgeBars * U),
          minPassScore |-> Num(SmcDefaultMinPassScore)]

(* The `defaults` dictionary each of the four handlers main.py registers
   merges the caller's config over. *)
HandlerDefaults(gate) ==
  CASE gate = "regime_gate" ->
         [allowStates |-> RegimeDefaultAllowStates,
          minRegimeConfidencePct |-> Num(RegimeDefaultMinConf),
          requireStackAlignment |-> Bool(TRUE), allowUnknownRegime |-> Bool(FALSE)]
    [] gate = "signal_filter" ->
         [blockedTags |-> ListOf(<<Str("data_gap"), Str("news_risk")>>),
          requiredTags |-> ListOf(<<>>), maxVolZ |-> Num(SignalFilterDefaultMaxVolZ),
          blockRangeStates |-> ListOf(<<Str("range")>>),
          allowRangeWhenTrendTag |-> Bool(FALSE)]
    [] gate = "trend_vol_gate" ->
         [allowedStates |-> TvgDefaultAllowedStates,
          minRegimeConf |-> Num(TvgDefaultMinRegimeConf),
          requireStackAlignment |-> Bool(TRUE), requireSlopeAlignment |-> Bool(TRUE),
          minAbsD50Pct |-> Num(TvgDefaultMinAbsD50),
          minAbsD200Pct |-> Num(TvgDefaultMinAbsD200),
          maxVolZ |-> Num(TvgDefaultMaxVolZ), maxRelVol |-> Num(TvgDefaultMaxRelVol),
          minVolZ |-> Num(TvgDefaultMinVolZ), minRelVol |-> Num(TvgDefaultMinRelVol),
          minPassScore |-> Num(TvgDefaultMinPassScore),
          allowNeutralSignal |-> Bool(FALSE)]
    [] gate = "smart_money_concept" ->
         [requireNonNeutralSignal |-> Bool(TRUE), blockOnDataGap |-> Bool(TRUE),
          requireTrendAlignment |-> Bool(TRUE),
          requireStructureAlignment |-> Bool(TRUE),
          requireZoneAlignment |-> Bool(TRUE), allowEquilibriumZone |-> Bool(TRUE),
          maxEventAgeBars |-> Num(SmcDefaultMaxEventAgeBars * U),
          minPassScore |-> Num(SmcDefaultMinPassScore)]

(* The handlers by strategy type *)

Handle(r, e, l) ==
  CASE r.gate = "regime_gate" -> RegimeGate(r.cfg, r.snap, r.sig)
    [] r.gate = "signal_filter" -> SignalFilter(r.cfg, r.snap, r.sig)
    [] r.gate = "trend_vol_gate" -> TrendVolGate(r.cfg, r.snap, r.sig)
    [] r.gate = "smart_money_concept" -> SmartMoneyConcept(r.cfg, r.snap, r.sig)
    [] r.gate = "vmc_cipher_gate" -> VmcCipherGate(r.cfg, r.snap, r.sig)
    [] r.gate = "vmc_divergence_reversal" -> VmcDivergenceReversal(r.cfg, r.snap, r.sig)
    [] r.gate = "ta_trend_vol_gate_v2" -> TaTrendVolGateV2(r.cfg, r.snap, r.sig, e, l)

----------------------------------------------------------------------------
(* The registry (registry.py) *)

Registration(type, name, version, defaultConfig, uiSchema, handler) ==
  [type |-> type, name |-> name, version |-> version,
   defaultConfig |-> defaultConfig, uiSchema |-> uiSchema, handler |-> handler]

(* The keys of StrategyRegistry._items, a dict in insertion order: the
   model keeps the registrations as a sequence. *)
TypesOf(its) == { its[i].type : i \in 1..Len(its) }

(* StrategyRegistry.register with the duplicate check left out: a second
   registration of a type replaces the first. *)
RegistryRegisterOverwrite(its, c) ==
  LET normalized == Strip(c.type)
      item == Registration(normalized, c.name, c.version, c.defaultConfig,
                           c.uiSchema, c.handler)
  IN IF normalized = ""
     THEN [error |-> <<"strategy_type_required">>, items |-> its]
     ELSE [error |-> <<>>,
           items |-> Append(SelectSeq(its, LAMBDA x : x.type # normalized), item)]

(* StrategyRegistry.register, called with the arguments c.  The result is
   the ValueError raised (<<>> when none) and the registry afterwards. *)
RegistryRegister(its, c) ==
  LET normalized == Strip(c.type)
      name == IF Strip(c.name) = "" THEN normalized ELSE Strip(c.name)
      version == IF Strip(c.version) = "" THEN "1.0.0" ELSE Strip(c.version)
  IN IF normalized = ""
     THEN [error |-> <<"strategy_type_required">>, items |-> its]
     ELSE IF normalized \in TypesOf(its)
     THEN [error |-> <<"strategy_already_registered", normalized>>, items |-> its]
     ELSE [error |-> <<>>,
           items |-> Append(its, Registration(normalized, name, version,
                                              c.defaultConfig, c.uiSchema, c.handler))]

(* StrategyRegistry.get: the registrations under strategy_type.strip(),
   none or one. *)
RegistryGet(its, type) == SelectSeq(its, LAMBDA x : x.type = Strip(type))

(* StrategyRegistry.list_public *)
ListPublic(its) ==
  [i \in 1..Len(its) |->
     [type |-> its[i].type, name |-> its[i].name, version |-> its[i].version,
      defaultConfig |-> its[i].defaultConfig, uiSchema |-> its[i].uiSchema]]

----------------------------------------------------------------------------
(* The process *)

BackendEnvValues == {"auto", "talib", "pandas_ta", "bogus", "TALIB"}

LibChoices == [talib : BOOLEAN, pta : BOOLEAN]

(* No HTTP exchange. *)
NoOut ==
  [op |-> "none", hdr |-> <<>>, call |-> <<>>, status |-> 0, detail |-> <<>>,
   invoked |-> <<>>, lookups |-> <<>>, listed |-> <<>>]

Init ==
  /\ pc = "idle"
  /\ req = NoReq
  /\ res = Raised
  /\ env \in BackendEnvValues
  /\ libs \in LibChoices
  /\ registry = <<>>
  /\ token = ""
  /\ out = NoOut

Evaluate(r) ==
  /\ pc = "idle"
  /\ req' = r
  /\ res' = Handle(r, env, libs)
  /\ pc' = "done"
  /\ UNCHANGED <<env, libs, registry, token, out>>

EvalRegimeGate == \E r \in RegimeReqs : Evaluate(r)

EvalSignalFilter == \E r \in SignalFilterReqs : Evaluate(r)

EvalTrendVolGate == \E r \in TvgReqs : Evaluate(r)

EvalSmartMoneyConcept == \E r \in SmcReqs : Evaluate(r)

EvalVmcCipherGate == \E r \in VmcCipherReqs : Evaluate(r)

EvalVmcDivergenceReversal == \E r \in VmcDivReqs : Evaluate(r)

EvalTaTrendVolGateV2 == \E r \in TaReqs : Evaluate(r)

(* The caller has its response; the service waits for the next request. *)
Return ==
  /\ pc = "done"
  /\ pc' = "idle"
  /\ req' = NoReq
  /\ res' = Raised
  /\ UNCHANGED <<env, libs, registry, token, out>>

(* os.environ["PY_TA_BACKEND"] = value *)
SetBackendEnv ==
  \E v \in BackendEnvValues :
    /\ v # env
    /\ env' = v
    /\ UNCHANGED <<pc, req, res, libs, registry, token, out>>

Next ==
  \/ EvalRegimeGate
  \/ EvalSignalFilter
  \/ EvalTrendVolGate
  \/ EvalSmartMoneyConcept
  \/ EvalVmcCipherGate
  \/ EvalVmcDivergenceReversal
  \/ EvalTaTrendVolGateV2
  \/ Return
  \/ SetBackendEnv

Spec == Init /\ [][Next]_vars

----------------------------------------------------------------------------
(* The service (main.py): start-up registration, authorisation, the list
   and the run endpoint *)

(* A received X-Py-Strategy-Token header; ascii is FALSE for a value with
   a character outside ASCII ("s_cret" stands for s, e acute, cret). *)
Token(s) == [present |-> TRUE, s |-> s, ascii |-> TRUE]
NoToken == [present |-> FALSE, s |-> "", ascii |-> TRUE]
NonAsciiToken == [present |-> TRUE, s |-> "s_cret", ascii |-> FALSE]

(* AUTH_TOKEN: PY_STRATEGY_AUTH_TOKEN, trimmed, "" when unset. *)
ExpectedTokens == {"", "s3cret"}

Headers ==
  { NoToken, Token(""), Token("s3cret"), Token(" s3cret "), Token("wrong"),
    NonAsciiToken }

(* is_token_authorized: "true", "false", or "raise" for the TypeError of
   hmac.compare_digest on a str with a non-ASCII character. *)
IsTokenAuthorized(received, expected) ==
  IF expected = "" THEN "true"
  ELSE IF ~received.present \/ received.s = "" THEN "false"
  ELSE IF ~received.ascii THEN "raise"
  ELSE IF Strip(received.s) = expected THEN "true"
  ELSE "false"

(* The four register calls of register_strategies, in their order. *)
MainCalls ==
  << Registration("regime_gate", "Regime Gate", "1.0.0",
       [allowStates |-> ListOf(<<Str("trend_up"), Str("trend_down"), Str("transition")>>),
        minRegimeConfidencePct |-> Num(45 * U),
        requireStackAlignment |-> Bool(TRUE), allowUnknownRegime |-> Bool(FALSE)],
       "Regime Gate", "regime_gate"),
     Registration("signal_filter", "Signal Filter", "1.0.0",
       [blockedTags |-> ListOf(<<Str("data_gap"), Str("news_risk")>>),
        requiredTags |-> ListOf(<<>>), maxVolZ |-> Num(250),
        blockRangeStates |-> ListOf(<<Str("range")>>),
        allowRangeWhenTrendTag |-> Bool(FALSE)],
       "Signal Filter", "signal_filter"),
     Registration("trend_vol_gate", "Trend+Vol Gate", "1.0.0",
       [allowedStates |-> ListOf(<<Str("trend_up"), Str("trend_down")>>),
        minRegimeConf |-> Num(55 * U), requireStackAlignment |-> Bool(TRUE),
        requireSlopeAlignment |-> Bool(TRUE), minAbsD50Pct |-> Num(12),
        minAbsD200Pct |-> Num(20), maxVolZ |-> Num(250), maxRelVol |-> Num(180),
        minVolZ |-> Num(-120), minRelVol |-> Num(60),
        minPassScore |-> Num(70 * U), allowNeutralSignal |-> Bool(FALSE)],
       "Trend+Vol Gate", "trend_vol_gate"),
     Registration("smart_money_concept", "Smart Money Concept", "1.0.0",
       [requireNonNeutralSignal |-> Bool(TRUE), blockOnDataGap |-> Bool(TRUE),
        requireTrendAlignment |-> Bool(TRUE),
        requireStructureAlignment |-> Bool(TRUE),
        requireZoneAlignment |-> Bool(TRUE), allowEquilibriumZone |-> Bool(TRUE),
        maxEventAgeBars |-> Num(120 * U), minPassScore |-> Num(65 * U)],
       "Smart Money Concept", "smart_money_concept") >>

(* The register calls of the model: those of register_strategies, and
   calls with a padded type, a blank name and version, an empty type, a
   blank type, and a second handler for a type. *)
RegisterCalls ==
  { MainCalls[i] : i \in 1..Len(MainCalls) }
  \cup { Registration(" regime_gate ", "  ", "", MainCalls[1].defaultConfig,
                      "Regime Gate", "regime_gate"),
         Registration("regime_gate", "Stub", " 2.0 ", <<>>, "Stub", "stub"),
         Registration("", "Nameless", "1.0.0", <<>>, "Nameless", "stub"),
         Registration("  ", "Blank", "1.0.0", <<>>, "Blank", "stub") }

(* A handler that is not one of the gates: it answers every request with
   the same response, whose meta has the keys run_strategy stamps. *)
StubRun ==
  Response(TRUE, Fin(50 * U), <<>>, <<"stub">>,
           [engine |-> "stub", strategyType |-> "other", strategyVersion |-> "0",
            note |-> "kept"],
           <<>>)

(* registration.handler(payload) *)
Invoke(handler, r, e, l) ==
  IF handler = "stub" THEN StubRun ELSE Handle([r EXCEPT !.gate = handler], e, l)

(* {**b, **a}: the keys of a win. *)
DictMergeKeepFirst(a, b) ==
  [k \in DOMAIN a \cup DOMAIN b |-> IF k \in DOMAIN a THEN a[k] ELSE b[k]]

(* {**a, **b} *)
DictMerge(a, b) ==
  [k \in DOMAIN a \cup DOMAIN b |-> IF k \in DOMAIN b THEN b[k] ELSE a[k]]

(* The three keys run_strategy adds to meta. *)
Stamp(registration) ==
  [engine |-> "python", strategyType |-> registration.type,
   strategyVersion |-> registration.version]

(* The end of run_strategy: the handler has returned result, or raised. *)
RunStrategyAnswer(called, registration, result) ==
  IF result.raised
  THEN [out |-> [called EXCEPT !.status = 500], res |-> Raised]
  ELSE [out |-> [called EXCEPT !.status = 200],
        res |-> [result EXCEPT !.score = NormalizeScore(result.score),
                               !.meta = DictMerge(result.meta, Stamp(registration))]]

(* registry.get and the call of the handler it found; the handler is
   called once, result is what it returned. *)
RunStrategyFound(looked, found, r, e, l) ==
  IF found = <<>>
  THEN [out |-> [looked EXCEPT !.status = 404,
                               !.detail = <<"strategy_not_found", r.gate>>],
        res |-> Raised]
  ELSE CHOOSE answer \in
         { RunStrategyAnswer([looked EXCEPT !.invoked = <<found[1].handler>>],
                             found[1], result) :
             result \in {Invoke(found[1].handler, r, e, l)} } : TRUE

(* run_strategy behind require_auth.  The result is the HTTP outcome
   (status, detail, the keys looked up in the registry and the handlers
   invoked, in order) and the response body. *)
RunStrategyResult(its, tok, r, h, e, l) ==
  LET auth == IsTokenAuthorized(h, tok)
      base == [NoOut EXCEPT !.op = "run", !.hdr = h]
  IN IF auth = "raise"
     THEN [out |-> [base EXCEPT !.status = 500], res |-> Raised]
     ELSE IF auth = "false"
     THEN [out |-> [base EXCEPT !.status = 401, !.detail = <<"unauthorized">>],
           res |-> Raised]
     ELSE RunStrategyFound([base EXCEPT !.lookups = <<r.gate>>],
                           RegistryGet(its, r.gate), r, e, l)

(* list_strategies behind require_auth. *)
ListStrategiesResult(its, tok, h) ==
  LET auth == IsTokenAuthorized(h, tok)
      base == [NoOut EXCEPT !.op = "list", !.hdr = h]
  IN IF auth = "raise" THEN [base EXCEPT !.status = 500]
     ELSE IF auth = "false"
     THEN [base EXCEPT !.status = 401, !.detail = <<"unauthorized">>]
     ELSE [base EXCEPT !.status = 200, !.listed = ListPublic(its)]

(* The run requests of the model: allowed, blocked and raising requests
   for the registered types, a padded type, a blank type and the type of a
   gate module that main.py does not register. *)
ServiceReqs ==
  { Request("regime_gate", RegimeCfg0, Snap0, "up"),
    Request("regime_gate", RegimeCfg0, [Snap0 EXCEPT !.state = Str("range")], "up"),
    Request("regime_gate", [RegimeCfg0 EXCEPT !.allowStates = NotAList("null")],
            Snap0, "up"),
    Request(" regime_gate ", RegimeCfg0, Snap0, "down"),
    Request("signal_filter", SignalFilterCfg0, Snap0, "up"),
    Request("trend_vol_gate", TvgCfg0, Snap0, "up"),
    Request("trend_vol_gate", TvgCfg0, [Snap0 EXCEPT !.stk = Str("bear")], "up"),
    Request("smart_money_concept", SmcCfg0, SmcSnap0, "up"),
    Request("vmc_cipher_gate", VmcCipherCfg0, VmcSnap0, "up"),
    Request("vmc_divergence_reversal", VmcDivCfg0, VmcSnap0, "up"),
    Request("ta_trend_vol_gate_v2", TaCfg0, TaSnap0, "up"),
    Request("  ", RegimeCfg0, Snap0, "up") }

ServiceInit ==
  /\ pc = "boot"
  /\ req = NoReq
  /\ res = Raised
  /\ env = "auto"
  /\ libs = [talib |-> FALSE, pta |-> FALSE]
  /\ registry = <<>>
  /\ token \in ExpectedTokens
  /\ out = NoOut

(* registry.register(...) while the module is loaded; a ValueError ends
   the process. *)
Register ==
  \E c \in RegisterCalls :
    LET done == RegistryRegister(registry, c)
    IN /\ pc = "boot"
       /\ registry' = done.items
       /\ out' = [NoOut EXCEPT !.op = "register", !.call = c, !.detail = done.error]
       /\ pc' = IF done.error = <<>> THEN "boot" ELSE "failed"
       /\ UNCHANGED <<req, res, env, libs, token>>

(* The module is loaded; the application serves requests. *)
FinishStartup ==
  /\ pc = "boot"
  /\ pc' = "ready"
  /\ out' = NoOut
  /\ UNCHANGED <<req, res, env, libs, registry, token>>

(* GET /v1/strategies *)
ListStrategies ==
  \E h \in Headers :
    /\ pc = "ready"
    /\ out' = ListStrategiesResult(registry, token, h)
    /\ pc' = "replied"
    /\ UNCHANGED <<req, res, env, libs, registry, token>>

(* POST /v1/strategies/run, registering the stub handler under a type it
   does not find. *)
RunStrategyRegistering ==
  \E r \in ServiceReqs, h \in Headers :
    \E done \in {RunStrategyResult(registry, token, r, h, env, libs)} :
       /\ pc = "ready"
       /\ req' = r
       /\ out' = done.out
       /\ res' = done.res
       /\ pc' = "replied"
       /\ registry' = IF done.out.status = 404
                      THEN Append(registry,
                                  Registration(r.gate, r.gate, "1.0.0", <<>>, r.gate, "stub"))
                      ELSE registry
       /\ UNCHANGED <<env, libs, token>>

(* POST /v1/strategies/run *)
RunStrategy ==
  \E r \in ServiceReqs, h \in Headers :
    \E done \in {RunStrategyResult(registry, token, r, h, env, libs)} :
       /\ pc = "ready"
       /\ req' = r
       /\ out' = done.out
       /\ res' = done.res
       /\ pc' = "replied"
       /\ UNCHANGED <<env, libs, registry, token>>

(* The client has its answer; the service waits for the next request. *)
Respond ==
  /\ pc = "replied"
  /\ pc' = "ready"
  /\ req' = NoReq
  /\ res' = Raised
  /\ out' = NoOut
  /\ UNCHANGED <<env, libs, registry, token>>

ServiceNext ==
  \/ Register
  \/ FinishStartup
  \/ ListStrategies
  \/ RunStrategy
  \/ Respond

ServiceSpec == ServiceInit /\ [][ServiceNext]_vars

----------------------------------------------------------------------------
(* Properties *)

GateTypes ==
  { "regime_gate", "signal_filter", "trend_vol_gate", "smart_money_concept",
    "vmc_cipher_gate", "vmc_divergence_reversal", "ta_trend_vol_gate_v2" }

(* The gates that append a pass code. *)
ScoredGates == GateTypes \ {"regime_gate", "signal_filter"}

(* The reason codes of a gate's checks, in the order of the checks. *)
CodesOf(gate) ==
  CASE gate = "regime_gate" -> RegimeCodes
    [] gate = "signal_filter" -> SignalFilterCodes
    [] gate = "trend_vol_gate" -> TvgCodes
    [] gate = "smart_money_concept" -> SmcCodes
    [] gate = "vmc_cipher_gate" -> VmcCipherCodes
    [] gate = "vmc_divergence_reversal" -> VmcDivCodes
    [] gate = "ta_trend_vol_gate_v2" -> TaCodes

(* A response is held for the request req. *)
Answered == pc = "done" /\ ~res.raised

InRange(x) == x.k = "fin" /\ 0 <= x.v /\ x.v <= 100 * U

(* C1: for each of the seven gates and every config, snapshot and signal,
   including snapshots whose numeric fields are absent, NaN or +/-Infinity,
   the returned score is a finite number with 0 <= score <= 100; so is the
   score the handler computes before the response model normalises it. *)
C1_ScoreBounded ==
  Answered => InRange(res.score) /\ InRange(res.gateScore)

(* A confidence at the largest finite double: trend_vol_gate answers with
   the score clamped to 100. *)
C1_Witness ==
  /\ Answered
  /\ req.gate = "trend_vol_gate"
  /\ req.snap.conf = Num(FMax)
  /\ res.score = Fin(100 * U)

(* C2: whenever the result has allow=false, reasonCodes holds exactly one
   code, the code of the first check that fails in the gate's check order;
   no code of a later check and no pass code appears. *)
C2_SingleFirstFailure ==
  Answered /\ ~res.allow =>
    \E i \in 1..Len(res.fails) :
      /\ res.fails[i]
      /\ \A j \in 1..(i - 1) : ~res.fails[j]
      /\ res.reasons = << CodesOf(req.gate)[i] >>

(* vmc_divergence_reversal blocked on the cross check while the later
   zone check fails too. *)
C2_Witness ==
  /\ Answered
  /\ req.gate = "vmc_divergence_reversal"
  /\ res.reasons = << "vmc_cross_conflict" >>
  /\ res.fails[8]

(* An evaluation step: the handler of req' runs under the backend mode and
   the libraries of the step and leaves its outcome in res'. *)
EvalStep == pc = "idle" /\ pc' = "done"

(* C3: two evaluations with identical (config, featureSnapshot, context)
   return identical results at whatever two points of the process lifetime
   they run: the response held for a request is the one an evaluation of
   the same request returns now. *)
C3_Deterministic == pc = "done" => res = Handle(req, env, libs)

(* The kinds of the options, by key. *)
ListOptions ==
  {"allowStates", "allowedStates", "blockedTags", "requiredTags", "blockRangeStates"}

BoolOptions ==
  { "requireStackAlignment", "allowUnknownRegime", "allowRangeWhenTrendTag",
    "requireSlopeAlignment", "allowNeutralSignal", "requireNonNeutralSignal",
    "blockOnDataGap", "requireTrendAlignment", "requireStructureAlignment",
    "requireZoneAlignment", "allowEquilibriumZone", "allowDivSignalAsPrimary",
    "requireRegularDiv", "allowHiddenDiv", "requireCrossAlignment",
    "requireExtremeZone", "requireEmaAlignment" }

(* The value has the type of its key, or the key is omitted. *)
WellTyped(key, value) ==
  IF key \in ListOptions THEN value.t \in {"list", "absent"}
  ELSE IF key \in BoolOptions THEN value.t \in {"bool", "absent"}
  ELSE value.t \in {"num", "numstr", "nan", "pinf", "ninf", "absent"}

(* The config with every wrong-typed value taken out. *)
Sanitised(cfg) ==
  [ key \in DOMAIN cfg |->
      IF WellTyped(key, cfg[key]) THEN cfg[key]
      ELSE IF key \in ListOptions THEN NotAList("absent") ELSE Absent ]

(* C4: a config value of the wrong type for its key (a non-boolean for a
   boolean option, a non-list for a list option, a non-numeric for a number
   option) yields the default for that key and never makes the evaluation
   raise: every evaluation returns what the same request returns with the
   wrong-typed values omitted. *)
C4_WrongTypeYieldsDefault ==
  [][ EvalStep =>
        res' = Handle([req' EXCEPT !.cfg = Sanitised(req'.cfg)], env, libs) ]_vars

(* C5: no gate evaluation raises because of the snapshot content: with a
   config whose values all have the type of their key, every evaluation
   returns a result. *)
C5_SnapshotNeverRaises ==
  pc = "done" /\ req.cfg = Sanitised(req.cfg) => ~res.raised

(* The pass code of a scored gate. *)
PassCodeOf(gate) ==
  CASE gate = "trend_vol_gate" -> "trend_vol_gate_pass"
    [] gate = "smart_money_concept" -> "smc_structure_zone_pass"
    [] gate = "vmc_cipher_gate" -> "vmc_cipher_gate_pass"
    [] gate = "vmc_divergence_reversal" -> "vmc_divergence_reversal_pass"
    [] gate = "ta_trend_vol_gate_v2" -> "ta_trend_vol_gate_v2_pass"

(* C6: for the five scored gates allow=true holds iff reasonCodes is exactly
   the one-element list with the gate's pass code; for regime_gate and
   signal_filter allow=true holds iff reasonCodes is empty. *)
C6_PassCodeIffAllow ==
  Answered =>
    IF req.gate \in ScoredGates
    THEN res.allow <=> res.reasons = << PassCodeOf(req.gate) >>
    ELSE res.allow <=> res.reasons = << >>

(* ta_trend_vol_gate_v2 allows on indicators computed from the series and
   reports its pass code alone. *)
C6_Witness ==
  /\ Answered
  /\ req.gate = "ta_trend_vol_gate_v2"
  /\ res.allow
  /\ res.meta.src = "ohlcv"
  /\ res.reasons = << "ta_trend_vol_gate_v2_pass" >>

(* The configs a gate is evaluated under. *)
CfgsOf(gate) ==
  CASE gate = "regime_gate" -> RegimeCfgs
    [] gate = "signal_filter" -> SignalFilterCfgs
    [] gate = "trend_vol_gate" -> TvgCfgs \cup TvgParamSets
    [] gate = "smart_money_concept" -> SmcCfgs
    [] gate = "vmc_cipher_gate" -> VmcCipherCfgs
    [] gate = "vmc_divergence_reversal" -> VmcDivCfgs
    [] gate = "ta_trend_vol_gate_v2" -> TaCfgs

(* The options a gate's tags are computed from: the low-liquidity
   thresholds of trend_vol_gate and allowHiddenDiv of
   vmc_divergence_reversal; no option for the other gates. *)
TagOptions(gate, cfg) ==
  CASE gate = "trend_vol_gate" ->
         << NumOpt(cfg, "minVolZ", TvgDefaultMinVolZ),
            NumOpt(cfg, "minRelVol", TvgDefaultMinRelVol) >>
    [] gate = "vmc_divergence_reversal" ->
         << IF AsBool(Merged(cfg, "allowHiddenDiv", Bool(FALSE)), FALSE) THEN 1 ELSE 0 >>
    [] OTHER -> << >>

(* C7 as stated: for every gate, two evaluations on the same snapshot and
   signal, one allowed and one blocked because of a different option or
   threshold in the config, return the same tags. *)
C7_TagsIndependentOfAllow ==
  [][ EvalStep /\ ~res'.raised =>
        \A cf \in CfgsOf(req'.gate) :
          LET other == Handle([req' EXCEPT !.cfg = cf], env, libs)
          IN ~other.raised /\ other.allow # res'.allow => other.tags = res'.tags ]_vars

(* C7 amended: for the five scored gates, two evaluations on the same
   snapshot and signal under configs that agree on the options the tags
   are computed from (minVolZ and minRelVol of trend_vol_gate,
   allowHiddenDiv of vmc_divergence_reversal) return the same tags,
   whichever of them is allowed or blocked. *)
C7_TagsIndependentOfDecision ==
  [][ EvalStep /\ ~res'.raised /\ req'.gate \in ScoredGates =>
        \A cf \in CfgsOf(req'.gate) :
          LET other == Handle([req' EXCEPT !.cfg = cf], env, libs)
          IN ~other.raised /\ TagOptions(req'.gate, cf) = TagOptions(req'.gate, req'.cfg)
             => other.tags = res'.tags ]_vars

(* trend_vol_gate allows a tagged snapshot that another threshold of the
   config blocks, under the same tags. *)
C7_Witness ==
  /\ Answered
  /\ req.gate = "trend_vol_gate"
  /\ res.allow
  /\ res.tags # << >>
  /\ \E cf \in TvgCfgs \cup TvgParamSets :
       LET other == TrendVolGate(cf, req.snap, req.sig)
       IN /\ ~other.raised
          /\ ~other.allow
          /\ TagOptions(req.gate, cf) = TagOptions(req.gate, req.cfg)
          /\ other.tags = res.tags

(* The regime confidence a request carries, after sanitisation. *)
ConfOf(r) == AsFloat(Leaf(HasReg(r.snap), r.snap.conf))

(* C8: a threshold check whose numeric input is absent counts as failed:
   an absent regime confidence fails the minimum-confidence check of
   regime_gate, trend_vol_gate and ta_trend_vol_gate_v2, and an absent
   volatility z-score fails the volatility check of signal_filter. *)
C8_AbsentInputFails ==
  Answered =>
    /\ req.gate \in {"regime_gate", "trend_vol_gate", "ta_trend_vol_gate_v2"}
         /\ ~ConfOf(req).some => res.fails[3]
    /\ req.gate = "signal_filter"
         /\ ~AsFloat(Leaf(HasVol(req.snap), req.snap.volZ)).some => res.fails[3]

(* C9: the offline strategy_gate and gate_row_by_params decide allow as the
   live trend_vol_gate does, for every row and every numeric parameter set
   with the other options at their defaults. *)
C9_OfflineAgreesWithLive ==
  Answered /\ req.gate = "trend_vol_gate" /\ req.cfg \in TvgParamSets =>
    /\ StrategyGate(RowOf(req.snap, req.sig), req.cfg) = res.allow
    /\ GateRowByParams(RowOf(req.snap, req.sig), req.cfg) = res.allow

(* The backend mode forces a library that was not importable. *)
ForcedUnavailable(e, l) ==
  \/ ResolveBackend(e) = "talib" /\ ~l.talib
  \/ ResolveBackend(e) = "pandas_ta" /\ ~l.pta

(* C10: whenever the backend mode forces a library that is not installed
   and the neutral-signal, regime-state and regime-confidence checks pass,
   ta_trend_vol_gate_v2 returns allow=false with reasonCodes exactly
   [ta_backend_unavailable], whatever the snapshot contains. *)
C10_ForcedUnavailableBlocks ==
  [][ /\ EvalStep
      /\ req'.gate = "ta_trend_vol_gate_v2"
      /\ ForcedUnavailable(env, libs)
      /\ ~res'.raised
      /\ ~res'.fails[1] /\ ~res'.fails[2] /\ ~res'.fails[3]
      => ~res'.allow /\ res'.reasons = << "ta_backend_unavailable" >> ]_vars

----------------------------------------------------------------------------
(* The library a mode selects among the available ones; "none" is the
   outcome ta_backend_unavailable. *)
BackendFor(mode, l) ==
  CASE mode = "talib" -> IF l.talib THEN "talib" ELSE "none"
    [] mode = "pandas_ta" -> IF l.pta THEN "pandas_ta" ELSE "none"
    [] OTHER -> IF l.talib THEN "talib"
                ELSE IF l.pta THEN "pandas_ta" ELSE "none"

(* The response r reports indicators computed by the library used, or the
   error ta_backend_unavailable when used is "none". *)
ComputedBy(r, used) ==
  IF used = "none"
  THEN r.meta.taError = "ta_backend_unavailable" /\ r.meta.src = "fallback"
  ELSE r.meta.taError = "" /\ r.meta.taBackend = used /\ r.meta.src = "ohlcv"

(* An evaluation of ta_trend_vol_gate_v2 that reaches compute_ta_indicators. *)
ComputeStep ==
  /\ EvalStep
  /\ req'.gate = "ta_trend_vol_gate_v2"
  /\ ~res'.raised
  /\ ExtractOhlcvFrame(req'.snap).ok

(* C11, as stated: the backend compute_ta_indicators uses is determined by
   the setting and the available libraries, a setting that is not one of
   auto, talib, pandas_ta counting as auto; auto takes talib, then
   pandas_ta, then fails with ta_backend_unavailable; a forced mode takes
   its library or fails with ta_backend_unavailable. *)
C11_BackendBySetting ==
  [][ ComputeStep =>
        ComputedBy(res', BackendFor(IF env \in TaBackends THEN env ELSE "auto", libs))
    ]_vars

(* C11, amended: the same with the setting compared after trimming and
   lower-casing, so that TALIB is the forced mode talib, not auto. *)
C11_BackendByNormalisedSetting ==
  [][ ComputeStep => ComputedBy(res', BackendFor(Lower(Strip(env)), libs)) ]_vars

(* The setting TALIB forces talib: with only pandas_ta available the result
   is ta_backend_unavailable. *)
C11_Witness ==
  /\ Answered
  /\ req.gate = "ta_trend_vol_gate_v2"
  /\ ExtractOhlcvFrame(req.snap).ok
  /\ env = "TALIB" /\ ~libs.talib /\ libs.pta
  /\ res = Handle(req, env, libs)
  /\ res.meta.taError = "ta_backend_unavailable"

----------------------------------------------------------------------------
(* A step that is one call of registry.register. *)
RegisterStep == pc = "boot" /\ out'.op = "register"

(* C12: registry.register raises when the trimmed type is empty or already
   registered and then leaves the registry as it was; otherwise it raises
   nothing, appends one registration under the trimmed type and keeps every
   earlier registration. *)
C12_RegisterContract ==
  [][ RegisterStep =>
        LET type == Strip(out'.call.type)
            n == Len(registry)
        IN IF type = "" \/ type \in TypesOf(registry)
           THEN out'.detail # <<>> /\ registry' = registry /\ pc' = "failed"
           ELSE /\ out'.detail = <<>>
                /\ Len(registry') = n + 1
                /\ registry'[n + 1].type = type
                /\ \A i \in 1..n : registry'[i] = registry[i]
    ]_vars

(* A second registration of regime_gate, spelt with padding, was refused
   and the first one is still the only one. *)
C12_Witness ==
  /\ pc = "failed"
  /\ out.call.type = " regime_gate "
  /\ out.detail = <<"strategy_already_registered", "regime_gate">>
  /\ Len(RegistryGet(registry, "regime_gate")) = 1
  /\ RegistryGet(registry, "regime_gate")[1].name = "Stub"

(* C13: once the service is serving, no list or run call changes the
   registry: the registered types and every registration stay as they
   were at the end of start-up. *)
C13_RegistryReadOnly ==
  [][ (pc \in {"ready", "replied"}) => registry' = registry ]_vars

(* After the registrations of register_strategies, a run call of an
   unregistered type was answered with 404 and the registry is intact. *)
C13_Witness ==
  /\ pc = "replied"
  /\ out.op = "run"
  /\ out.status = 404
  /\ req.gate = "vmc_cipher_gate"
  /\ registry = MainCalls

(* The run call got past authorisation. *)
Admitted == pc = "replied" /\ out.op = "run" /\ out.lookups # <<>>

StampedKeys == {"engine", "strategyType", "strategyVersion"}

(* C14: a run call resolves the trimmed type; an unregistered type gives
   strategy_not_found with the type and no handler call; a registered type
   gives one call of its handler, whose allow, score, reason codes and tags
   are returned as they are, with the handler's meta plus engine,
   strategyType and strategyVersion from the registry, which win over
   keys of the same name in the handler's meta. *)
C14_RunResolvesAndStamps ==
  Admitted =>
    LET type == Strip(req.gate)
        found == SelectSeq(registry, LAMBDA x : x.type = type)
        handled == Invoke(found[1].handler, req, env, libs)
    IN IF found = <<>>
       THEN /\ out.status = 404
            /\ out.detail = <<"strategy_not_found", req.gate>>
            /\ out.invoked = <<>>
       ELSE /\ out.invoked = <<found[1].handler>>
            /\ ~handled.raised =>
                 /\ out.status = 200
                 /\ res.allow = handled.allow
                 /\ res.score = handled.score
                 /\ res.reasons = handled.reasons
                 /\ res.tags = handled.tags
                 /\ DOMAIN res.meta = DOMAIN handled.meta \cup StampedKeys
                 /\ \A k \in DOMAIN handled.meta \ StampedKeys :
                      res.meta[k] = handled.meta[k]
                 /\ res.meta.engine = "python"
                 /\ res.meta.strategyType = found[1].type
                 /\ res.meta.strategyVersion = found[1].version

(* A handler whose meta already has the three keys was called through the
   registry: the registry's values are in the answer, the other key is
   kept. *)
C14_Witness ==
  /\ Admitted
  /\ out.status = 200
  /\ out.invoked = <<"stub">>
  /\ req.gate = " regime_gate "
  /\ res.meta.engine = "python"
  /\ res.meta.strategyType = "regime_gate"
  /\ res.meta.strategyVersion = "2.0"
  /\ res.meta.note = "kept"

(* The call went on to the endpoint's body. *)
Authorised ==
  \/ out.op = "run" /\ out.lookups # <<>>
  \/ out.op = "list" /\ out.status = 200

(* C15: with no expected token every list and run call is authorised; with
   an expected token a call is authorised exactly when its token, trimmed,
   equals the expected one, and every other call fails with 401 before any
   lookup or handler call. *)
C15_TokenAuthorisation ==
  pc = "replied" =>
    /\ token = "" => Authorised
    /\ token # "" =>
         /\ Authorised <=> (out.hdr.present /\ Strip(out.hdr.s) = token)
         /\ ~Authorised =>
              out.status = 401 /\ out.lookups = <<>> /\ out.invoked = <<>>

----------------------------------------------------------------------------
(* The parsed regime confidence of the request. *)
RegimeScoreBase ==
  LET conf == AsFloat(Leaf(HasReg(req.snap), req.snap.conf))
      base == IF conf.some THEN conf.v ELSE 50 * U
  IN IF base < 0 THEN 0 ELSE IF base > 100 * U THEN 100 * U ELSE base

RegimePassRequest == Request("regime_gate", RegimeCfg0, Snap0, "up")

(* C16: the score of regime_gate is the confidence (50 when absent),
   clamped to [0, 100], when it allows, and the smaller of that and 35 when
   it blocks; trend_up with confidence 70, stack bull and signal up under
   the default config is allowed without reason codes, tagged regime_ok,
   with score 70. *)
C16_RegimeScore ==
  Answered /\ req.gate = "regime_gate" =>
    /\ res.score = Fin(IF res.allow \/ RegimeScoreBase < 35 * U
                       THEN RegimeScoreBase ELSE 35 * U)
    /\ req = RegimePassRequest =>
         /\ res.allow
         /\ res.reasons = <<>>
         /\ res.tags = <<"regime_ok">>
         /\ res.score = Fin(70 * U)

(* The scenario of the claim was evaluated. *)
C16_Witness ==
  /\ Answered
  /\ req = RegimePassRequest
  /\ res.allow
  /\ res.score = Fin(70 * U)

(* The conditions of trend_vol_gate under its default config, in the order
   of the checks, on the parsed inputs of the request. *)
TvgDefaultConditions ==
  LET sn == req.snap
      signal == SignalOf(req.sig)
      state == LabelOf(Leaf(HasReg(sn), sn.state))
      stack == LabelOf(Leaf(HasEma(sn), sn.stk))
      conf == AsFloat(Leaf(HasReg(sn), sn.conf))
      d50 == AsFloat(Leaf(HasEma(sn), sn.d50))
      d200 == AsFloat(Leaf(HasEma(sn), sn.d200))
      sl50 == AsFloat(Leaf(HasEma(sn), sn.sl50))
      volZ == AsFloat(Leaf(HasVol(sn), sn.volZ))
      relVol == AsFloat(Leaf(HasVol(sn), sn.relVol))
  IN << signal \in {"up", "down"},
        state \in {"trend_up", "trend_down"},
        conf.some /\ conf.v >= 55 * U,
        (signal = "up" /\ stack = "bull") \/ (signal = "down" /\ stack = "bear"),
        sl50.some /\ ((signal = "up" /\ sl50.v >= 0) \/ (signal = "down" /\ sl50.v <= 0)),
        /\ d50.some /\ d200.some
        /\ (d50.v >= 12 \/ d50.v <= -12)
        /\ (d200.v >= 20 \/ d200.v <= -20),
        ~(volZ.some /\ relVol.some /\ volZ.v >= 250 /\ relVol.v >= 180),
        ~((volZ.some /\ volZ.v <= -120) \/ (relVol.some /\ relVol.v <= 60)),
        res.gateScore.v >= 70 * U >>

TvgStackConflictRequest ==
  Request("trend_vol_gate", TvgCfg0, [Snap0 EXCEPT !.stk = Str("bear")], "up")

(* C17: under the default config trend_vol_gate allows exactly when all
   nine conditions hold, and when it blocks its single reason code is that
   of the first condition that fails; signal up against stack bear on
   otherwise passing inputs gives ema_stack_conflict. *)
C17_TvgDefaultDecision ==
  Answered /\ req.gate = "trend_vol_gate" /\ req.cfg = TvgCfg0 =>
    LET ok == TvgDefaultConditions
    IN /\ res.allow <=> \A i \in 1..9 : ok[i]
       /\ ~res.allow =>
            \E i \in 1..9 : /\ ~ok[i]
                             /\ \A j \in 1..(i - 1) : ok[j]
                             /\ res.reasons = << TvgCodes[i] >>
       /\ req = TvgStackConflictRequest =>
            ~res.allow /\ res.reasons = <<"ema_stack_conflict">>

(* The scenario of the claim was evaluated. *)
C17_Witness ==
  /\ Answered
  /\ req = TvgStackConflictRequest
  /\ res.reasons = <<"ema_stack_conflict">>

----------------------------------------------------------------------------
(* The close of the last bar and the zone bounds smart_money_concept reads
   from the request. *)
SmcLastClose ==
  LET sn == req.snap
      rows == IF AsDict(sn.hc) /\ AsDict(sn.lastBars) /\ sn.ohlc.t = "list"
              THEN sn.ohlc.rows ELSE <<>>
  IN IF rows = <<>> THEN None
     ELSE AsFloat(Leaf(AsDict(rows[Len(rows)].shape), rows[Len(rows)].c))

SmcZonesRead ==
  IF AsDict(req.snap.adv) /\ AsDict(req.snap.smc) /\ AsDict(req.snap.zonesDoc)
  THEN req.snap.zones ELSE NoZones

(* The last close lies in the closed equilibrium band, whichever of its two
   bounds is the lower one. *)
InEquilibriumBand ==
  LET close == SmcLastClose
      top == AsFloat(SmcZonesRead.equilibriumTop)
      bottom == AsFloat(SmcZonesRead.equilibriumBottom)
  IN /\ close.some /\ top.some /\ bottom.some
     /\ \/ (bottom.v <= close.v /\ close.v <= top.v)
        \/ (top.v <= close.v /\ close.v <= bottom.v)

TagSet(r) == { r.tags[i] : i \in 1..Len(r.tags) }

(* C18: whenever the last close lies inside the closed equilibrium band
   (bounds in either order) the zone bucket is equilibrium, and with
   allowEquilibriumZone the zone is then favourable for up and for down, so
   the zone check does not block; an equilibrium bound that is absent, NaN
   or infinite never gives the bucket equilibrium. *)
C18_EquilibriumZone ==
  Answered /\ req.gate = "smart_money_concept" =>
    /\ InEquilibriumBand =>
         /\ "zone_equilibrium" \in TagSet(res)
         /\ ( /\ AsBool(Merged(req.cfg, "allowEquilibriumZone", Bool(TRUE)), TRUE)
              /\ SignalOf(req.sig) \in {"up", "down"}
              => ~res.fails[6] )
    /\ ( \/ ~AsFloat(SmcZonesRead.equilibriumTop).some
         \/ ~AsFloat(SmcZonesRead.equilibriumBottom).some
         => "zone_equilibrium" \notin TagSet(res) )

----------------------------------------------------------------------------
(* The request is the hidden-divergence scenario of vmc_divergence_reversal:
   signal up, no regular bullish divergence on any branch and a hidden one
   on some branch, an age within the default maximum, cross and zone
   aligned, no data gap, no gold veto, and no config key set besides
   requireRegularDiv and allowHiddenDiv. *)
HiddenOnlyScenario ==
  LET sn == req.snap
      branches == {BranchOf(sn, sn.wt), BranchOf(sn, sn.rsi), BranchOf(sn, sn.stoch)}
      age == MinAge({ DirectionalDivAge("up", b, TRUE) : b \in branches })
  IN /\ req.gate = "vmc_divergence_reversal"
     /\ SignalOf(req.sig) = "up"
     /\ \A k \in {"requireNonNeutralSignal", "blockOnDataGap", "requireCrossAlignment",
                  "requireExtremeZone", "maxDivergenceAgeBars", "minPassScore"} :
          req.cfg[k] = Absent
     /\ HasVmc(sn)
     /\ ~AsBool(Leaf(HasVmc(sn), sn.vmcDataGap), FALSE)
     /\ ~AsBool(Leaf(AsDict(sn.rf), sn.dataGap), FALSE)
     /\ ~AsBool(Leaf(HasSignals(sn), sn.goldNoBuyLong), FALSE)
     /\ \A b \in branches : ~DirectionalRegularDivergence("up", b)
     /\ \E b \in branches : AsBool(b.bullishHidden, FALSE)
     /\ age.some /\ age.v <= VmcDivDefaultMaxDivergenceAgeBars
     /\ AsBool(Leaf(HasWave(sn), sn.crossUp), FALSE)
     /\ AsBool(Leaf(HasWave(sn), sn.oversold), FALSE)

(* The hidden divergence was opted into: requireRegularDiv is false and
   allowHiddenDiv is true. *)
HiddenOptedIn ==
  /\ ~AsBool(Merged(req.cfg, "requireRegularDiv", Bool(TRUE)), TRUE)
  /\ AsBool(Merged(req.cfg, "allowHiddenDiv", Bool(FALSE)), FALSE)

(* C19: in vmc_divergence_reversal a hidden divergence in the direction of
   the signal counts as a divergence exactly when allowHiddenDiv is true:
   with requireRegularDiv false and allowHiddenDiv true, only a hidden
   bullish divergence, signal up, a fresh age, cross and zone aligned, no
   data gap and no veto, the gate allows; with allowHiddenDiv false, or
   with requireRegularDiv true, the same snapshot is blocked with exactly
   vmc_divergence_missing. *)
C19_HiddenDivergenceOptIn ==
  Answered /\ HiddenOnlyScenario =>
    IF HiddenOptedIn
    THEN res.allow /\ res.reasons = <<"vmc_divergence_reversal_pass">>
    ELSE ~res.allow /\ res.reasons = <<"vmc_divergence_missing">>

(* The scenario was allowed through its hidden divergence. *)
C19_Witness ==
  /\ Answered
  /\ HiddenOnlyScenario
  /\ HiddenOptedIn
  /\ res.allow
  /\ "vmc_hidden_div" \in TagSet(res)

(* The scenario was blocked although allowHiddenDiv is true, because a
   regular divergence is required. *)
HiddenBlockedByRequireRegular ==
  /\ Answered
  /\ HiddenOnlyScenario
  /\ AsBool(Merged(req.cfg, "allowHiddenDiv", Bool(FALSE)), FALSE)
  /\ ~res.allow

(* The scenario was blocked because allowHiddenDiv is false although no
   regular divergence is required. *)
HiddenBlockedByNotAllowed ==
  /\ Answered
  /\ HiddenOnlyScenario
  /\ ~AsBool(Merged(req.cfg, "requireRegularDiv", Bool(TRUE)), TRUE)
  /\ ~res.allow

----------------------------------------------------------------------------
(* extract_ohlcv_frame on the rows of ohlcvSeries.bars *)

(* A timestamp cell: the ISO-8601 UTC string of the instant m quarter-hours
   after 2026-02-01T00:00:00Z. *)
Iso(m) == [t |-> "iso", n |-> m, s |-> ""]

(* _to_float: float(value), None on any exception, None for NaN and the
   infinities. *)
ToFloat(value) ==
  CASE value.t = "num" -> Some(value.n)
    [] value.t = "numstr" -> Some(value.n)
    [] value.t = "bool" -> Some(value.n * U)
    [] value.t \in {"nan", "pinf", "ninf"} -> None
    [] OTHER -> None

(* pd.to_datetime(ts, utc=True, errors="coerce") on the timestamp cells of
   the model: ISO strings parse, other text, null and a missing value are
   NaT. *)
ToDatetime(raw) == IF raw.t = "iso" THEN Some(raw.n) ELSE None

(* The keys of a bar document, in the order its cells are kept. *)
BarKeys == <<"ts", "open", "high", "low", "close", "volume">>

DefaultFormat == <<"ts", "open", "high", "low", "close", "volume">>

MinRowCells == 6

(* A bar of the series: a document (cells in the order of BarKeys, Absent
   for a missing key), a positional array, or any other JSON value. *)
DictBar(ts, o, h, l, c, v) == [kind |-> "dict", cells |-> <<ts, o, h, l, c, v>>]
ListBar(cells) == [kind |-> "list", cells |-> cells]
OtherBar == [kind |-> "other", cells |-> <<>>]

(* ohlcv.get("format"): missing, or a list of JSON values. *)
NoFormat == [t |-> "absent", items |-> <<>>]
FormatList(items) == [t |-> "list", items |-> items]

(* fmt of extract_ohlcv_frame: the given format if it is a list of at least
   six strings, else the default order. *)
FormatOf(fmtRaw) ==
  IF /\ fmtRaw.t = "list"
     /\ Len(fmtRaw.items) >= 6
     /\ \A i \in 1..Len(fmtRaw.items) : fmtRaw.items[i].t = "str"
  THEN [i \in 1..Len(fmtRaw.items) |-> fmtRaw.items[i].s]
  ELSE DefaultFormat

(* The row a bar parses into, and the bar that parses into none. *)
Row(ts, o, h, l, c, v) ==
  [ok |-> TRUE, ts |-> ts, open |-> o, high |-> h, low |-> l, close |-> c, volume |-> v]
NoRow ==
  [ok |-> FALSE, ts |-> Absent, open |-> 0, high |-> 0, low |-> 0, close |-> 0, volume |-> 0]

(* lookup.get(key) of _row_from_tuple: lookup maps fmt[idx] to row[idx] for
   the indices both have, a later index overwriting an earlier one. *)
LookupGet(cells, fmt, key) ==
  LET idxs == { i \in 1..Min2(Len(fmt), Len(cells)) : fmt[i] = key }
  IN IF idxs = {} THEN Absent
     ELSE cells[CHOOSE i \in idxs : \A j \in idxs : j <= i]

(* _row_from_tuple without its length test. *)
RowFromTupleAnyLength(cells, fmt) ==
  LET o == ToFloat(LookupGet(cells, fmt, "open"))
      h == ToFloat(LookupGet(cells, fmt, "high"))
      l == ToFloat(LookupGet(cells, fmt, "low"))
      c == ToFloat(LookupGet(cells, fmt, "close"))
      v == ToFloat(LookupGet(cells, fmt, "volume"))
  IN IF ~o.some \/ ~h.some \/ ~l.some \/ ~c.some \/ ~v.some THEN NoRow
     ELSE Row(LookupGet(cells, fmt, "ts"), o.v, h.v, l.v, c.v, v.v)

(* _row_from_tuple *)
RowFromTuple(cells, fmt) ==
  IF Len(cells) < MinRowCells THEN NoRow
  ELSE LET o == ToFloat(LookupGet(cells, fmt, "open"))
           h == ToFloat(LookupGet(cells, fmt, "high"))
           l == ToFloat(LookupGet(cells, fmt, "low"))
           c == ToFloat(LookupGet(cells, fmt, "close"))
           v == ToFloat(LookupGet(cells, fmt, "volume"))
       IN IF ~o.some \/ ~h.some \/ ~l.some \/ ~c.some \/ ~v.some THEN NoRow
          ELSE Row(LookupGet(cells, fmt, "ts"), o.v, h.v, l.v, c.v, v.v)

(* The body of the loop over bars: a document is read by key, a list goes
   through _row_from_tuple, anything else is skipped. *)
ParseBar(bar, fmt) ==
  IF bar.kind = "dict"
  THEN LET o == ToFloat(bar.cells[2])
           h == ToFloat(bar.cells[3])
           l == ToFloat(bar.cells[4])
           c == ToFloat(bar.cells[5])
           v == ToFloat(bar.cells[6])
       IN IF ~o.some \/ ~h.some \/ ~l.some \/ ~c.some \/ ~v.some THEN NoRow
          ELSE Row(bar.cells[1], o.v, h.v, l.v, c.v, v.v)
  ELSE IF bar.kind = "list" THEN RowFromTuple(bar.cells, fmt)
  ELSE NoRow

(* rows of extract_ohlcv_frame, in the order of the bars. *)
ParsedRows(bars, fmt) ==
  SelectSeq([i \in 1..Len(bars) |-> ParseBar(bars[i], fmt)], LAMBDA r : r.ok)

(* The latest instant a timestamp cell of the model names. *)
MaxTs == MinBars + 1

(* The rows stamped with the instants from t to MaxTs, by instant and in
   their given order within one instant. *)
RECURSIVE RowsFrom(_, _)
RowsFrom(stamped, t) ==
  IF t > MaxTs THEN <<>>
  ELSE SelectSeq(stamped, LAMBDA r : r.ts.some /\ r.ts.v = t) \o RowsFrom(stamped, t + 1)

(* frame["ts"] = pd.to_datetime(...) followed by frame.sort_values("ts"):
   ascending, NaT last.  The order pandas leaves among rows of equal ts is
   not fixed by its default sort; the input order is kept here. *)
SortValues(rows) ==
  LET stamped == [i \in 1..Len(rows) |-> [rows[i] EXCEPT !.ts = ToDatetime(rows[i].ts)]]
  IN RowsFrom(stamped, 0) \o SelectSeq(stamped, LAMBDA r : ~r.ts.some)

NoFrame == [ok |-> FALSE, error |-> "ta_input_missing", frame |-> <<>>]

(* extract_ohlcv_frame on a series [shape, barsT, format, bars]: the JSON
   type of ohlcvSeries and of its bars, the format and the bars.  The
   numeric columns of the parsed rows are finite floats, so to_numeric and
   dropna change nothing. *)
ExtractOhlcvFrameRows(series) ==
  IF ~AsDict(series.shape) THEN NoFrame
  ELSE IF series.barsT # "list" \/ Len(series.bars) < MinBars THEN NoFrame
  ELSE LET rows == ParsedRows(series.bars, FormatOf(series.format))
       IN IF Len(rows) < MinBars THEN NoFrame
          ELSE LET frame == SortValues(rows)
               IN IF Len(frame) < MinBars THEN NoFrame
                  ELSE [ok |-> TRUE, error |-> "", frame |-> frame]

(* The series of the checks: n bars of one kind under one format, the i-th
   with open 100 + i, timestamps ascending, descending or alternating
   between two instants, and two bars replaced by a variant. *)
FormatTsLast ==
  FormatList(<<Str("open"), Str("high"), Str("low"), Str("close"), Str("volume"), Str("ts")>>)

Formats ==
  { NoFormat,
    FormatList(<<Str("ts"), Str("open"), Str("high"), Str("low"), Str("close"), Str("volume")>>),
    FormatTsLast,
    FormatList(<<Str("ts"), Str("open"), Str("high"), Str("low"), Str("close")>>),
    FormatList(<<Str("ts"), Str("open"), Str("high"), Str("low"), Str("close"), Num(6 * U)>>) }

BarVariants ==
  { "plain", "nanClose", "infVolume", "nullOpen", "noHigh", "textLow", "numstrLow",
    "boolVolume", "fiveCells", "notARow", "badTs", "nullTs" }

LastBarVariants == {"plain", "nanClose", "fiveCells", "nullTs"}

TsOrders == {"asc", "desc", "pairs"}

SeriesLengths == {MinBars - 1, MinBars, MinBars + 1}

TsAt(order, n, i) ==
  IF order = "asc" THEN i ELSE IF order = "desc" THEN n + 1 - i ELSE i % 2

MakeBar(kind, fmtRaw, variant, ts, i) ==
  LET t == CASE variant = "badTs" -> Str("n/a")
             [] variant = "nullTs" -> Null
             [] OTHER -> Iso(ts)
      o == IF variant = "nullOpen" THEN Null ELSE Num((100 + i) * U)
      h == IF variant = "noHigh"
           THEN (IF kind = "dict" THEN Absent ELSE Null)
           ELSE Num((101 + i) * U)
      l == CASE variant = "textLow" -> Str("n/a")
             [] variant = "numstrLow" -> NumStr((99 + i) * U)
             [] OTHER -> Num((99 + i) * U)
      c == IF variant = "nanClose" THEN NaN ELSE Num((100 + i) * U + 50)
      v == CASE variant = "infVolume" -> PInf
             [] variant = "boolVolume" -> Bool(TRUE)
             [] OTHER -> Num(1000 * U)
      tsLast == fmtRaw = FormatTsLast
  IN IF variant = "notARow" THEN OtherBar
     ELSE IF variant = "fiveCells"
     THEN ListBar(IF tsLast THEN <<o, h, l, c, v>> ELSE <<t, o, h, l, c>>)
     ELSE IF kind = "dict" THEN DictBar(t, o, h, l, c, v)
     ELSE ListBar(IF tsLast THEN <<o, h, l, c, v, t>> ELSE <<t, o, h, l, c, v>>)

OhlcvSeries(shape, barsT, fmtRaw, bars) ==
  [shape |-> shape, barsT |-> barsT, format |-> fmtRaw, bars |-> bars]

FrameInputs ==
  { OhlcvSeries("dict", "list", f,
      [i \in 1..n |-> MakeBar(k, f, IF i = 2 THEN v1 ELSE IF i = n THEN v2 ELSE "plain",
                              TsAt(ord, n, i), i)]) :
      n \in SeriesLengths, k \in {"dict", "list"}, f \in Formats, ord \in TsOrders,
      v1 \in BarVariants, v2 \in LastBarVariants }
  \cup { OhlcvSeries(sh[1], sh[2], NoFormat,
           [i \in 1..MinBars |-> MakeBar("dict", NoFormat, "plain", i, i)]) :
           sh \in {<<"absent", "list">>, <<"list", "list">>, <<"dict", "absent">>,
                   <<"dict", "dict">>} }

(* No series yet. *)
NoSeries == OhlcvSeries("absent", "absent", NoFormat, <<>>)

(* The frame extraction called on its own, as tests/test_ta_backend.py
   does: req is the ohlcvSeries document, res the returned pair. *)
FrameInit ==
  /\ pc = "idle"
  /\ req = NoSeries
  /\ res = NoFrame
  /\ env = "auto"
  /\ libs = [talib |-> FALSE, pta |-> FALSE]
  /\ registry = <<>>
  /\ token = ""
  /\ out = NoOut

Extract ==
  \E series \in FrameInputs :
    /\ pc = "idle"
    /\ req' = series
    /\ res' = ExtractOhlcvFrameRows(series)
    /\ pc' = "done"
    /\ UNCHANGED <<env, libs, registry, token, out>>

FrameReturn ==
  /\ pc = "done"
  /\ pc' = "idle"
  /\ req' = NoSeries
  /\ res' = NoFrame
  /\ UNCHANGED <<env, libs, registry, token, out>>

FrameNext == Extract \/ FrameReturn

FrameSpec == FrameInit /\ [][FrameNext]_vars

----------------------------------------------------------------------------
(* The cell a bar holds for a field: the value under the key of a document,
   the cell at the position the format gives the field in a positional
   array, nothing otherwise. *)
FieldOf(bar, fmt, key) ==
  IF bar.kind = "dict"
  THEN bar.cells[CHOOSE i \in 1..Len(BarKeys) : BarKeys[i] = key]
  ELSE IF bar.kind = "list" /\ \E i \in 1..Len(bar.cells) : i <= Len(fmt) /\ fmt[i] = key
  THEN bar.cells[CHOOSE i \in 1..Len(bar.cells) : i <= Len(fmt) /\ fmt[i] = key]
  ELSE Absent

(* Each of open, high, low, close and volume of the bar is a finite
   number. *)
Coercible(bar, fmt) ==
  \A key \in {"open", "high", "low", "close", "volume"} :
    ToFloat(FieldOf(bar, fmt, key)).some

(* The bar is a document, or a positional array of at least six cells. *)
WellFormed(bar) ==
  bar.kind = "dict" \/ (bar.kind = "list" /\ Len(bar.cells) >= MinRowCells)

(* The row of a bar whose five fields are finite numbers. *)
RowOfBar(bar, fmt) ==
  [ok |-> TRUE, ts |-> ToDatetime(FieldOf(bar, fmt, "ts")),
   open |-> ToFloat(FieldOf(bar, fmt, "open")).v,
   high |-> ToFloat(FieldOf(bar, fmt, "high")).v,
   low |-> ToFloat(FieldOf(bar, fmt, "low")).v,
   close |-> ToFloat(FieldOf(bar, fmt, "close")).v,
   volume |-> ToFloat(FieldOf(bar, fmt, "volume")).v]

(* The rows of the bars of the series that pass the test, in the order of
   the bars. *)
RowsOfBars(series, Passes(_, _)) ==
  LET fmt == FormatOf(series.format)
      kept == SelectSeq(series.bars, LAMBDA b : Passes(b, fmt))
  IN [i \in 1..Len(kept) |-> RowOfBar(kept[i], fmt)]

(* Row a comes strictly before row b when rows are ascending by ts and
   those without a ts come last. *)
TsBefore(a, b) ==
  IF ~a.ts.some THEN FALSE
  ELSE IF ~b.ts.some THEN TRUE
  ELSE a.ts.v < b.ts.v

(* Two sequences hold the same rows, each as often. *)
SameRows(a, b) ==
  /\ Len(a) = Len(b)
  /\ \A i \in 1..Len(a) :
       Cardinality({ j \in 1..Len(a) : a[j] = a[i] })
         = Cardinality({ j \in 1..Len(b) : b[j] = a[i] })

(* The pair returned is a frame without an error or the error without a
   frame; a frame is returned exactly when bars is a list of at least 35
   bars of which at least 35 are usable; the frame holds the usable rows. *)
FrameOrError(usable) ==
  /\ \/ res.ok /\ res.error = ""
     \/ ~res.ok /\ res.error = "ta_input_missing" /\ res.frame = <<>>
  /\ res.ok <=> /\ AsDict(req.shape)
                /\ req.barsT = "list"
                /\ Len(req.bars) >= MinBars
                /\ Len(usable) >= MinBars
  /\ res.ok => SameRows(res.frame, usable)

(* C20, as claimed: extract_ohlcv_frame returns a frame and no error or no
   frame and ta_input_missing; it returns a frame exactly when bars is a
   list of at least 35 rows of which at least 35 remain after dropping the
   rows whose open, high, low, close or volume fails numeric coercion; the
   rows of the frame are exactly those rows, ascending by ts. *)
C20_FrameOfCoercibleRows ==
  pc = "done" =>
    /\ FrameOrError(RowsOfBars(req, Coercible))
    /\ \A i, j \in 1..Len(res.frame) :
         i < j /\ res.frame[i].ts.some /\ res.frame[j].ts.some
           => res.frame[i].ts.v <= res.frame[j].ts.v

(* C20, amended: the rows that remain are those of the documents and of the
   positional arrays of at least six cells whose open, high, low, close and
   volume are finite numbers; the frame holds exactly those rows, ascending
   by ts, the rows whose ts does not parse last. *)
C20_FrameOfWellFormedRows ==
  pc = "done" =>
    /\ FrameOrError(RowsOfBars(req, LAMBDA b, fmt : WellFormed(b) /\ Coercible(b, fmt)))
    /\ \A i \in 1..(Len(res.frame) - 1) : ~TsBefore(res.frame[i + 1], res.frame[i])

(* A frame was returned from 36 bars read latest first under a format that
   puts ts last, one of them an array of five cells holding five finite
   numbers: the frame has 35 rows and starts with the last bar. *)
C20_Witness ==
  /\ pc = "done"
  /\ res.ok
  /\ req.format = FormatTsLast
  /\ Len(req.bars) = MinBars + 1
  /\ req.bars[2].kind = "list" /\ Len(req.bars[2].cells) = 5
  /\ Coercible(req.bars[2], FormatOf(req.format))
  /\ Len(res.frame) = MinBars
  /\ res.frame[1].open = (100 + MinBars + 1) * U

(* The row count of the frame is the one the gate's view of the series
   gives. *)
FrameCountsAgree ==
  pc = "done" =>
    LET counts == [shape |-> req.shape, barsT |-> req.barsT, n |-> Len(req.bars),
                   valid |-> Len(ParsedRows(req.bars, FormatOf(req.format)))]
        seen == ExtractOhlcvFrame([ohlcv |-> counts])
    IN seen.ok = res.ok /\ (res.ok => seen.rows = Len(res.frame))

----------------------------------------------------------------------------
(* The request is for ta_trend_vol_gate_v2 and no frame could be extracted
   from its ohlcvSeries. *)
FrameFailed ==
  /\ req.gate = "ta_trend_vol_gate_v2"
  /\ ~ExtractOhlcvFrame(req.snap).ok

(* The precomputed indicators.rsi_14, indicators.adx.adx_14 and
   indicators.atr_pct of the snapshot are all finite numbers. *)
PrecomputedPresent ==
  LET sn == req.snap
      inds == AsDict(sn.ind)
  IN /\ inds /\ AsFloat(sn.rsi14).some
     /\ inds /\ AsDict(sn.adxDoc) /\ AsFloat(sn.adx14).some
     /\ inds /\ AsFloat(sn.atrPct).some

(* The response was blocked by one of the checks before the indicator
   checks. *)
BlockedBeforeIndicators ==
  /\ ~res.allow
  /\ res.reasons[1] \in {"signal_missing_or_neutral", "regime_state_not_allowed",
                         "regime_confidence_low", "ta_backend_unavailable"}

(* C21: when frame extraction fails ta_trend_vol_gate_v2 reads RSI, ADX,
   ATR% and the EMAs from the precomputed fields of the snapshot, keeps
   ta_input_missing in meta.taError and decides on those values: with the
   three precomputed values present it is never blocked with
   ta_input_missing, and once the earlier checks pass it is blocked with
   ta_input_missing exactly when one of the three is absent. *)
C21_FallbackDecides ==
  Answered /\ FrameFailed =>
    /\ res.meta.taError = "ta_input_missing"
    /\ res.meta.src = "fallback"
    /\ PrecomputedPresent => res.reasons # <<"ta_input_missing">>
    /\ ~BlockedBeforeIndicators =>
         (res.reasons = <<"ta_input_missing">> <=> ~PrecomputedPresent)

(* Without a series the gate passed on the precomputed values, the error
   kept in meta. *)
C21_Witness ==
  /\ Answered
  /\ FrameFailed
  /\ PrecomputedPresent
  /\ res.allow
  /\ res.meta.taError = "ta_input_missing"

(* Without a series and without a precomputed value the gate blocked with
   ta_input_missing. *)
FallbackMissingBlocked ==
  /\ Answered
  /\ FrameFailed
  /\ ~PrecomputedPresent
  /\ res.reasons = <<"ta_input_missing">>

----------------------------------------------------------------------------
(* The latest structural event of the request: the swing event when there
   is one, else the internal one. *)
LatestEvent ==
  LET sn == req.snap
      smc == AsDict(sn.adv) /\ AsDict(sn.smc)
  IN IF smc /\ AsDict(sn.swing) /\ AsDict(sn.swingEvent.shape) THEN sn.swingEvent
     ELSE IF smc /\ AsDict(sn.internal) /\ AsDict(sn.internalEvent.shape)
     THEN sn.internalEvent
     ELSE NoEvent

(* The bars of the request and the timestamp of the last one. *)
LastBars ==
  LET sn == req.snap
  IN IF AsDict(sn.hc) /\ AsDict(sn.lastBars) /\ sn.ohlc.t = "list" THEN sn.ohlc.rows
     ELSE <<>>

LastBarTs ==
  IF LastBars # <<>> /\ AsDict(LastBars[Len(LastBars)].shape)
  THEN ToTsMs(LastBars[Len(LastBars)].t) ELSE None

(* The age of the latest event in bars, floor((last bar timestamp - event
   timestamp) / bar duration), when it can be computed. *)
EventAgeBars ==
  LET barMs == EstimateBarMs(LastBars)
      eventTs == ToTsMs(LatestEvent.ts)
  IN IF eventTs.some /\ LastBarTs.some /\ barMs.some /\ barMs.v > 0
     THEN Some((LastBarTs.v - eventTs.v) \div barMs.v)
     ELSE None

(* maxEventAgeBars as configured: the whole number given, 120 when the key
   is missing or not a number. *)
ConfiguredMaxEventAgeBars ==
  LET x == AsInt(req.cfg.maxEventAgeBars)
  IN IF x.some THEN x.v ELSE SmcDefaultMaxEventAgeBars

(* The latest event points the way of the signal. *)
EventMatchesSignal ==
  LET text == IF Truthy(LatestEvent.direction)
              THEN Lower(Strip(PyStr(LatestEvent.direction))) ELSE ""
      signal == NormalizeSignal(req.sig)
  IN (signal = "up" /\ text = "bullish") \/ (signal = "down" /\ text = "bearish")

(* The structure check of smart_money_concept is switched on and none of
   the checks before it blocked. *)
StructureCheckReached ==
  /\ req.gate = "smart_money_concept"
  /\ AsBool(Merged(req.cfg, "requireStructureAlignment", Bool(TRUE)), TRUE)
  /\ res.reasons[1] \notin {"signal_missing_or_neutral", "smc_context_missing",
                            "smc_data_gap", "smc_trend_conflict"}

(* C22: smart_money_concept counts the latest structural event (swing when
   present, else internal) as aligned only if its direction matches the
   signal and its age in bars, floor((last bar timestamp - event
   timestamp) / bar duration), is at most maxEventAgeBars; an event whose
   age cannot be computed is stale.  With requireStructureAlignment on and
   the earlier checks passing, a misaligned or stale event blocks with
   exactly smc_structure_conflict. *)
C22_StructureAlignment ==
  Answered /\ StructureCheckReached =>
    (res.reasons = <<"smc_structure_conflict">>
       <=> ~(/\ EventMatchesSignal
             /\ EventAgeBars.some
             /\ EventAgeBars.v <= ConfiguredMaxEventAgeBars))

(* A stale event blocked: its age is known and above the configured
   maximum. *)
StaleEventBlocked ==
  /\ Answered
  /\ StructureCheckReached
  /\ EventMatchesSignal
  /\ EventAgeBars.some /\ EventAgeBars.v > ConfiguredMaxEventAgeBars
  /\ res.reasons = <<"smc_structure_conflict">>

----------------------------------------------------------------------------
(* The age check of vmc_divergence_reversal *)

VmcDivBranches == {BranchOf(req.snap, req.snap.wt), BranchOf(req.snap, req.snap.rsi),
                   BranchOf(req.snap, req.snap.stoch)}

VmcDivAllowHidden == AsBool(Merged(req.cfg, "allowHiddenDiv", Bool(FALSE)), FALSE)

ConfiguredMaxDivergenceAgeBars ==
  LET x == SafeAge(Merged(req.cfg, "maxDivergenceAgeBars",
                          Num(VmcDivDefaultMaxDivergenceAgeBars * U)))
  IN IF x.some THEN x.v ELSE VmcDivDefaultMaxDivergenceAgeBars

(* The age the branch gives for the direction of the signal. *)
AgeForDirection(branch) ==
  IF SignalOf(req.sig) = "up" THEN SafeAge(branch.lastBullishAgeBars)
  ELSE IF SignalOf(req.sig) = "down" THEN SafeAge(branch.lastBearishAgeBars)
  ELSE None

(* Some detector reports a divergence in the direction of the signal and
   its age for that direction is within the maximum. *)
FreshMatchingDivergence ==
  \E b \in VmcDivBranches :
    /\ DirectionalDivergence(SignalOf(req.sig), b, VmcDivAllowHidden)
    /\ AgeForDirection(b).some
    /\ AgeForDirection(b).v <= ConfiguredMaxDivergenceAgeBars

(* The five checks before the age check passed. *)
DivAgeCheckReached ==
  /\ Answered
  /\ req.gate = "vmc_divergence_reversal"
  /\ \A i \in 1..5 : ~res.fails[i]

(* C23: vmc_divergence_reversal passes its age check only if one of the
   three detectors both reports a divergence in the direction of the signal
   and has an age for that direction within maxDivergenceAgeBars; when every
   detector reporting a matching divergence is older, or has no age, the
   gate blocks with vmc_divergence_stale. *)
C23_FreshestMatchingDivergence ==
  DivAgeCheckReached =>
    IF FreshMatchingDivergence
    THEN ~res.fails[6]
    ELSE ~res.allow /\ res.reasons = <<"vmc_divergence_stale">>

(* The only matching divergence is older than the maximum and the gate
   blocked with vmc_divergence_stale. *)
StaleDivergenceBlocked ==
  /\ DivAgeCheckReached
  /\ ~FreshMatchingDivergence
  /\ \E b \in VmcDivBranches : AgeForDirection(b).some
  /\ res.reasons = <<"vmc_divergence_stale">>

(* The age check passed on the age of a detector that reports no divergence
   in the direction of the signal. *)
FreshByForeignAge ==
  /\ DivAgeCheckReached
  /\ ~FreshMatchingDivergence
  /\ ~res.fails[6]

----------------------------------------------------------------------------
(* The age check of vmc_cipher_gate *)

CipherFlag(key) == AsBool(Leaf(HasSignals(req.snap), req.snap[key]), FALSE)

CipherAge(key) == SafeAge(Leaf(HasAges(req.snap), req.snap[key]))

ConfiguredMaxSignalAgeBars ==
  LET x == SafeAge(Merged(req.cfg, "maxSignalAgeBars",
                          Num(VmcCipherDefaultMaxSignalAgeBars * U)))
  IN IF x.some THEN x.v ELSE VmcCipherDefaultMaxSignalAgeBars

(* The ages of the signals that are set for the requested direction: the
   primary one, and the divergence one when allowDivSignalAsPrimary. *)
MatchingSignalAges ==
  LET up == SignalOf(req.sig) = "up"
      down == SignalOf(req.sig) = "down"
      allowDiv == AsBool(Merged(req.cfg, "allowDivSignalAsPrimary", Bool(TRUE)), TRUE)
  IN (IF up /\ CipherFlag("buy") THEN {CipherAge("ageBuy")} ELSE {})
     \cup (IF down /\ CipherFlag("sell") THEN {CipherAge("ageSell")} ELSE {})
     \cup (IF up /\ allowDiv /\ CipherFlag("buyDiv") THEN {CipherAge("ageBuyDiv")} ELSE {})
     \cup (IF down /\ allowDiv /\ CipherFlag("sellDiv") THEN {CipherAge("ageSellDiv")} ELSE {})

FreshMatchingSignal ==
  \E a \in MatchingSignalAges : a.some /\ a.v <= ConfiguredMaxSignalAgeBars

(* The five checks before the age check passed. *)
SignalAgeCheckReached ==
  /\ Answered
  /\ req.gate = "vmc_cipher_gate"
  /\ \A i \in 1..5 : ~res.fails[i]

(* C24: once the earlier checks pass, vmc_cipher_gate blocks with
   vmc_signal_too_old exactly when every signal set for the requested
   direction (the primary one and, with allowDivSignalAsPrimary, the
   divergence one) has an age above maxSignalAgeBars or no age; a fresh
   matching divergence signal is not too old because of the age of a
   primary signal that is not set. *)
C24_FreshestMatchingSignal ==
  SignalAgeCheckReached =>
    (res.reasons = <<"vmc_signal_too_old">> <=> ~FreshMatchingSignal)

(* Both matching signals are stale and the gate blocked with
   vmc_signal_too_old. *)
StaleSignalBlocked ==
  /\ SignalAgeCheckReached
  /\ ~FreshMatchingSignal
  /\ \E a \in MatchingSignalAges : a.some
  /\ res.reasons = <<"vmc_signal_too_old">>

(* A fresh divergence signal was reported too old on the age of a primary
   signal that is not set. *)
FreshDivReportedOld ==
  /\ SignalAgeCheckReached
  /\ FreshMatchingSignal
  /\ res.reasons = <<"vmc_signal_too_old">>

----------------------------------------------------------------------------
(* The no-long veto of vmc_cipher_gate and vmc_divergence_reversal *)

VmcGates == {"vmc_cipher_gate", "vmc_divergence_reversal"}

(* signals.goldNoBuyLong is set. *)
VetoSet == AsBool(Leaf(HasSignals(req.snap), req.snap.goldNoBuyLong), FALSE)

(* C25: in vmc_cipher_gate and vmc_divergence_reversal, with the no-long
   veto set an up signal that passes the neutral, context and data-gap
   checks is blocked with exactly vmc_gold_dot_no_long, whatever the
   divergence, cross, zone and age inputs are; a signal that is not up, or
   a request without the veto, is never blocked with that code. *)
C25_VetoBlocksOnlyLongs ==
  Answered /\ req.gate \in VmcGates =>
    /\ (VetoSet /\ SignalOf(req.sig) = "up" /\ \A i \in 1..3 : ~res.fails[i])
         => ~res.allow /\ res.reasons = <<"vmc_gold_dot_no_long">>
    /\ (\E i \in 1..Len(res.reasons) : res.reasons[i] = "vmc_gold_dot_no_long")
         => VetoSet /\ SignalOf(req.sig) = "up"

(* An up signal with a stale divergence and no cross was blocked by the
   veto alone. *)
C25_Witness ==
  /\ Answered
  /\ req.gate = "vmc_divergence_reversal"
  /\ VetoSet
  /\ SignalOf(req.sig) = "up"
  /\ res.fails[6] /\ res.fails[7]
  /\ res.reasons = <<"vmc_gold_dot_no_long">>

(* A down signal went through vmc_cipher_gate with the veto set. *)
VetoedShortAllowed ==
  /\ Answered
  /\ req.gate = "vmc_cipher_gate"
  /\ VetoSet
  /\ SignalOf(req.sig) = "down"
  /\ res.allow

(* A down signal went through vmc_divergence_reversal with the veto set. *)
VetoedShortReversalAllowed ==
  /\ Answered
  /\ req.gate = "vmc_divergence_reversal"
  /\ VetoSet
  /\ SignalOf(req.sig) = "down"
  /\ res.allow

----------------------------------------------------------------------------
(* The order of signal_filter's checks *)

FilterTags ==
  StrItems(IF req.snap.tags.t = "absent" THEN ListOf(<<>>) ELSE req.snap.tags, "lower")

FilterBlockedTags ==
  StrItems(Merged(req.cfg, "blockedTags", ListOf(<<Str("data_gap"), Str("news_risk")>>)),
           "lower")

FilterRequiredTags == StrItems(Merged(req.cfg, "requiredTags", ListOf(<<>>)), "lower")

FilterRangeStates ==
  StrItems(Merged(req.cfg, "blockRangeStates", ListOf(<<Str("range")>>)), "strip")

BlockedTagPresent == FilterBlockedTags \cap FilterTags # {}

RequiredTagMissing == \E t \in FilterRequiredTags : t \notin FilterTags

VolZAboveMax ==
  LET z == AsFloat(Leaf(HasVol(req.snap), req.snap.volZ))
  IN z.some /\ Abs(z.v) > NumOpt(req.cfg, "maxVolZ", SignalFilterDefaultMaxVolZ)

StateInRangeStates == LabelOf(Leaf(HasReg(req.snap), req.snap.state)) \in FilterRangeStates

(* allowRangeWhenTrendTag is true and the snapshot carries a trend tag. *)
TrendTagOverride ==
  /\ req.cfg.allowRangeWhenTrendTag = Bool(TRUE)
  /\ FilterTags \cap {"trend_up", "trend_down"} # {}

(* The filter answered a request whose allowRangeWhenTrendTag is a boolean
   or left out. *)
FilterAnswered ==
  /\ Answered
  /\ req.gate = "signal_filter"
  /\ req.cfg.allowRangeWhenTrendTag.t \in {"absent", "bool"}

(* C26: signal_filter evaluates blocked tag present, required tag missing,
   |volZ| above maxVolZ, regime state in blockRangeStates in this order and
   reports the first that fails; the range-state check blocks with
   range_state_block unless allowRangeWhenTrendTag is true and the tags
   contain trend_up or trend_down, and the override lifts no block of the
   three earlier checks. *)
C26_FilterOrderAndOverride ==
  FilterAnswered =>
    /\ res.reasons =
         IF BlockedTagPresent THEN <<"blocked_tag_match">>
         ELSE IF RequiredTagMissing THEN <<"required_tag_missing">>
         ELSE IF VolZAboveMax THEN <<"volatility_guard">>
         ELSE IF StateInRangeStates /\ ~TrendTagOverride THEN <<"range_state_block">>
         ELSE <<>>
    /\ res.allow <=> res.reasons = <<>>

(* The override let a range state through. *)
C26_Witness ==
  /\ FilterAnswered
  /\ StateInRangeStates
  /\ TrendTagOverride
  /\ res.allow

(* With the override in force, each of the three earlier checks still
   blocked. *)
OverrideKeepsBlockedTag ==
  FilterAnswered /\ StateInRangeStates /\ TrendTagOverride
  /\ res.reasons = <<"blocked_tag_match">>

OverrideKeepsRequiredTag ==
  FilterAnswered /\ StateInRangeStates /\ TrendTagOverride
  /\ res.reasons = <<"required_tag_missing">>

OverrideKeepsVolatilityGuard ==
  FilterAnswered /\ StateInRangeStates /\ TrendTagOverride
  /\ res.reasons = <<"volatility_guard">>

(* A trend tag without the option does not lift the range block. *)
TrendTagWithoutOption ==
  /\ FilterAnswered
  /\ FilterTags \cap {"trend_up", "trend_down"} # {}
  /\ ~TrendTagOverride
  /\ res.reasons = <<"range_state_block">>

----------------------------------------------------------------------------
(* The types the service resolves after start-up *)

(* C27: with the registrations of register_strategies in place, a run call
   for any of the seven gate types resolves to the type's own handler and
   is not answered with strategy_not_found. *)
C27_EveryGateResolves ==
  (Admitted /\ registry = MainCalls /\ req.gate \in GateTypes) =>
    /\ out.status # 404
    /\ out.invoked = <<req.gate>>

(* A registered gate type was resolved to its own handler. *)
RegisteredGateResolved ==
  /\ Admitted
  /\ registry = MainCalls
  /\ req.gate = "smart_money_concept"
  /\ out.status = 200
  /\ out.invoked = <<"smart_money_concept">>

(* Each of the three gate types that register_strategies leaves out was
   answered with strategy_not_found. *)
CipherGateNotFound ==
  /\ Admitted /\ registry = MainCalls /\ req.gate = "vmc_cipher_gate"
  /\ out.detail = <<"strategy_not_found", "vmc_cipher_gate">>

DivergenceReversalNotFound ==
  /\ Admitted /\ registry = MainCalls /\ req.gate = "vmc_divergence_reversal"
  /\ out.detail = <<"strategy_not_found", "vmc_divergence_reversal">>

TaTrendVolGateNotFound ==
  /\ Admitted /\ registry = MainCalls /\ req.gate = "ta_trend_vol_gate_v2"
  /\ out.detail = <<"strategy_not_found", "ta_trend_vol_gate_v2">>

----------------------------------------------------------------------------
(* The published default configurations *)

RegisteredTypes == { MainCalls[i].type : i \in 1..Len(MainCalls) }

EmptyConfig(cfg) == \A k \in DOMAIN cfg : cfg[k].t = "absent"

(* The registration register_strategies makes for a type. *)
MainCallOf(type) == CHOOSE c \in { MainCalls[i] : i \in 1..Len(MainCalls) } : c.type = type

(* The list call answered from the registry of register_strategies. *)
ListedAfterStartup ==
  /\ pc = "replied"
  /\ out.op = "list"
  /\ out.status = 200
  /\ registry = MainCalls

(* A run call with an empty config was answered by a handler of
   register_strategies. *)
EmptyConfigRun ==
  /\ Admitted
  /\ registry = MainCalls
  /\ Strip(req.gate) \in RegisteredTypes
  /\ EmptyConfig(req.cfg)

(* C28: for every type register_strategies registers, the default
   configuration the list call returns has the keys and values of the
   defaults the type's handler merges the caller's config over, and a run
   with an empty config is answered as the run of the same request with
   the listed default configuration. *)
C28_ListedDefaultsAreHandlerDefaults ==
  /\ ListedAfterStartup =>
       /\ { out.listed[i].type : i \in 1..Len(out.listed) } = RegisteredTypes
       /\ \A i \in 1..Len(out.listed) :
            out.listed[i].defaultConfig = HandlerDefaults(out.listed[i].type)
  /\ EmptyConfigRun =>
       \E listed \in { RegistryGet(registry, req.gate)[1] } :
         /\ DOMAIN listed.defaultConfig = DOMAIN req.cfg
         /\ listed.defaultConfig = HandlerDefaults(listed.type)
         /\ \E again \in { Invoke(listed.handler,
                                  [req EXCEPT !.cfg = listed.defaultConfig], env, libs) } :
              IF again.raised THEN out.status = 500
              ELSE /\ out.status = 200
                   /\ res.allow = again.allow
                   /\ res.score = NormalizeScore(again.score)
                   /\ res.reasons = again.reasons
                   /\ res.tags = again.tags

(* The list call returned the four default configurations. *)
C28_Witness ==
  /\ ListedAfterStartup
  /\ Len(out.listed) = 4
  /\ out.listed[3].type = "trend_vol_gate"
  /\ out.listed[3].defaultConfig.minPassScore = Num(TvgDefaultMinPassScore)

(* A run with an empty config was blocked by trend_vol_gate. *)
EmptyConfigRunBlocked ==
  /\ EmptyConfigRun
  /\ req.gate = "trend_vol_gate"
  /\ out.status = 200
  /\ ~res.allow

(* Called directly, each of the four handlers answers a request with an
   empty config as it answers the request with the registered default
   configuration. *)
EmptyConfigIsRegisteredConfig ==
  (pc = "done" /\ req.gate \in RegisteredTypes /\ EmptyConfig(req.cfg)) =>
    res = Handle([req EXCEPT !.cfg = MainCallOf(req.gate).defaultConfig], env, libs)

----------------------------------------------------------------------------
(* The score threshold under the default configuration *)

DefaultMinPassScore(gate) ==
  CASE gate = "trend_vol_gate" -> TvgDefaultMinPassScore
    [] gate = "smart_money_concept" -> SmcDefaultMinPassScore
    [] gate = "vmc_cipher_gate" -> VmcCipherDefaultMinPassScore
    [] gate = "vmc_divergence_reversal" -> VmcDivDefaultMinPassScore
    [] gate = "ta_trend_vol_gate_v2" -> TaDefaultMinPassScore

(* A scored gate answered a request with an empty config. *)
DefaultConfigAnswered ==
  /\ Answered
  /\ req.gate \in ScoredGates
  /\ EmptyConfig(req.cfg)

(* Every check before the score check passed. *)
EarlierChecksPassed == \A i \in 1..(Len(res.fails) - 1) : ~res.fails[i]

(* C29: with the default configuration none of the five scored gates
   returns score_below_threshold; every input that passes the earlier
   checks of a gate has a score at or above the gate's default
   minPassScore, and is allowed. *)
C29_DefaultThresholdNeverBlocks ==
  DefaultConfigAnswered =>
    /\ \A i \in 1..Len(res.reasons) : res.reasons[i] # "score_below_threshold"
    /\ EarlierChecksPassed =>
         /\ res.gateScore.k = "fin"
         /\ res.gateScore.v >= DefaultMinPassScore(req.gate)
         /\ res.allow

(* vmc_cipher_gate allowed a request whose score is exactly the default
   threshold. *)
C29_Witness ==
  /\ DefaultConfigAnswered
  /\ req.gate = "vmc_cipher_gate"
  /\ EarlierChecksPassed
  /\ res.gateScore = Fin(VmcCipherDefaultMinPassScore)
  /\ res.allow

(* Each of the other scored gates allowed a request under its default
   configuration with a score below 100. *)
DefaultPassBelowFull ==
  /\ DefaultConfigAnswered
  /\ req.gate # "vmc_cipher_gate"
  /\ res.allow
  /\ res.gateScore.v < 100 * U

(* trend_vol_gate and ta_trend_vol_gate_v2 allowed the request that earns
   the fewest points the earlier checks let through: a confidence at the
   default minimum, and for trend_vol_gate no volume reading. *)
LowestTvgDefaultPass ==
  /\ DefaultConfigAnswered
  /\ req.gate = "trend_vol_gate"
  /\ res.allow
  /\ res.gateScore = Fin(73 * U)

LowestTaDefaultPass ==
  /\ DefaultConfigAnswered
  /\ req.gate = "ta_trend_vol_gate_v2"
  /\ res.allow
  /\ res.gateScore = Fin(80 * U)

(* A supplied threshold does block on the score. *)
SuppliedThresholdBlocks ==
  /\ Answered
  /\ req.gate \in ScoredGates
  /\ res.reasons = <<"score_below_threshold">>

----------------------------------------------------------------------------
(* A neutral or absent signal at the two oscillator gates *)

NeutralOrAbsent == req.sig \in {"neutral", "none"}

RequireNonNeutral ==
  AsBool(Merged(req.cfg, "requireNonNeutralSignal", Bool(TRUE)), TRUE)

(* The block codes of the checks after the neutral-signal check. *)
LaterBlockCodes ==
  { CodesOf(req.gate)[i] : i \in 2..Len(CodesOf(req.gate)) }

(* Every requirement of the gate is switched off and the threshold is 0. *)
AllRequirementsOff ==
  /\ \A k \in DOMAIN req.cfg :
       k \in {"requireNonNeutralSignal", "blockOnDataGap", "requireRegularDiv",
              "requireCrossAlignment", "requireExtremeZone"}
         => req.cfg[k] = Bool(FALSE)
  /\ req.cfg.minPassScore = Num(0)

(* C30: vmc_cipher_gate and vmc_divergence_reversal allow no neutral or
   absent signal under any configuration: with requireNonNeutralSignal in
   force the request is blocked with signal_missing_or_neutral, and with
   the check switched off, even with every other requirement off and
   minPassScore 0, it is blocked with the code of a later check. *)
C30_NeutralNeverAllowed ==
  (Answered /\ req.gate \in VmcGates /\ NeutralOrAbsent) =>
    /\ ~res.allow
    /\ Len(res.reasons) = 1
    /\ IF RequireNonNeutral
       THEN res.reasons[1] = "signal_missing_or_neutral"
       ELSE res.reasons[1] \in LaterBlockCodes

(* With every requirement off and a snapshot that lets an up signal
   through, vmc_divergence_reversal blocked the absent signal for want of a
   divergence in its direction. *)
C30_Witness ==
  /\ Answered
  /\ req.gate = "vmc_divergence_reversal"
  /\ req.sig = "none"
  /\ AllRequirementsOff
  /\ \E b \in VmcDivBranches : AsBool(b.bullish, FALSE)
  /\ res.reasons = <<"vmc_divergence_missing">>

(* The same at vmc_cipher_gate, for want of a directional signal. *)
NeutralCipherBlocked ==
  /\ Answered
  /\ req.gate = "vmc_cipher_gate"
  /\ req.sig = "neutral"
  /\ AllRequirementsOff
  /\ CipherFlag("buy")
  /\ res.reasons = <<"vmc_directional_signal_missing">>

(* With every requirement off an up signal is allowed. *)
AllOffUpAllowed ==
  /\ Answered
  /\ req.gate \in VmcGates
  /\ req.sig = "up"
  /\ AllRequirementsOff
  /\ res.allow

====
